---- MODULE Spec2Model ----
(***************************************************************************)
(* The WebSocket opening handshake of nanomsg (ws_handshake.c): the        *)
(* handshake state machine, its receive loop, the request and response     *)
(* parsers with their token and value matchers, the reply and request      *)
(* generators and the SHA-1 / Base64 accept-key derivation.                *)
(*                                                                         *)
(* Bytes are their ASCII codes, a C string is a sequence of codes and a    *)
(* buffer is a sequence of fixed length whose unused bytes are 0.  A       *)
(* pointer into a buffer is a 1-based index; 0 is NULL and -1 stands for   *)
(* a field that nothing has initialised yet.                               *)
(***************************************************************************)
EXTENDS Integers, Sequences, FiniteSets, TLC

(***************************************************************************)
(* Bounds of the model.  The two buffers have whatever size the header     *)
(* gives them; the model gives them sizes just large enough for the        *)
(* complete handshakes it exchanges.  JunkTail is the number of bytes      *)
(* before the end of a buffer that an endless peer chooses freely.         *)
(***************************************************************************)
OpeningHsSize == 192
ResponseSize == 186
JunkTail == 4

NUL == 0
SP == 32
CR == 13
LF == 10

\* \r\n
NN_WS_HANDSHAKE_CRLF ==
    <<13,10>>

\* \r\n\r\n
NN_WS_HANDSHAKE_TERMSEQ ==
    <<13,10,13,10>>

\* 258EAFA5-E914-47DA-95CA-C5AB0DC85B11
NN_WS_HANDSHAKE_MAGIC_GUID ==
    <<50,53,56,69,65,70,65,53,45,69,57,49,52,45,52,55,68,65,45,57,53,67,65,45,
      67,53,65,66,48,68,67,56,53,66,49,49>>

\*  
TokSp ==
    <<32>>

\* Upgrade:
HdrUpgrade ==
    <<85,112,103,114,97,100,101,58>>

\* Connection:
HdrConnection ==
    <<67,111,110,110,101,99,116,105,111,110,58>>

\* Sec-WebSocket-Extensions:
HdrExtensions ==
    <<83,101,99,45,87,101,98,83,111,99,107,101,116,45,69,120,116,101,110,115,
      105,111,110,115,58>>

\* websocket
ValWebsocket ==
    <<119,101,98,115,111,99,107,101,116>>

\* Upgrade
ValUpgrade ==
    <<85,112,103,114,97,100,101>>

\* GET x HTTP/1.1\r\nUpgrade: websocket\r\nConnection: Upgrade\r\nHost: x\r\nOrigin: x\r\nSec-WebSocket-Key: xxxxxxxxxxxxxxxxxxxxxxxx\r\nSec-WebSocket-Version: xx\r\n\r\n
ServerTemplate ==
    <<71,69,84,32,120,32,72,84,84,80,47,49,46,49,13,10,85,112,103,114,97,100,
      101,58,32,119,101,98,115,111,99,107,101,116,13,10,67,111,110,110,101,99,
      116,105,111,110,58,32,85,112,103,114,97,100,101,13,10,72,111,115,116,58,
      32,120,13,10,79,114,105,103,105,110,58,32,120,13,10,83,101,99,45,87,101,
      98,83,111,99,107,101,116,45,75,101,121,58,32,120,120,120,120,120,120,
      120,120,120,120,120,120,120,120,120,120,120,120,120,120,120,120,120,120,
      13,10,83,101,99,45,87,101,98,83,111,99,107,101,116,45,86,101,114,115,
      105,111,110,58,32,120,120,13,10,13,10>>

\* HTTP/1.1 xxx\r\n\r\n
ClientTemplate ==
    <<72,84,84,80,47,49,46,49,32,120,120,120,13,10,13,10>>

\* HTTP/1.1 101 Switching Protocols\r\nUpgrade: websocket\r\nConnection: Upgrade\r\nSec-WebSocket-Accept: 
Fmt101Head ==
    <<72,84,84,80,47,49,46,49,32,49,48,49,32,83,119,105,116,99,104,105,110,
      103,32,80,114,111,116,111,99,111,108,115,13,10,85,112,103,114,97,100,
      101,58,32,119,101,98,115,111,99,107,101,116,13,10,67,111,110,110,101,99,
      116,105,111,110,58,32,85,112,103,114,97,100,101,13,10,83,101,99,45,87,
      101,98,83,111,99,107,101,116,45,65,99,99,101,112,116,58,32>>

\* \r\nSec-WebSocket-Protocol: 
Fmt101Mid ==
    <<13,10,83,101,99,45,87,101,98,83,111,99,107,101,116,45,80,114,111,116,
      111,99,111,108,58,32>>

\* the sample nonce
RandKeyNonce ==
    <<116,104,101,32,115,97,109,112,108,101,32,110,111,110,99,101>>

\* 0123456789abcdef
RandKeyDigits ==
    <<48,49,50,51,52,53,54,55,56,57,97,98,99,100,101,102>>

\* dGhlIHNhbXBsZSBub25jZQ==
PeerKeyValue ==
    <<100,71,104,108,73,72,78,104,98,88,66,115,90,83,66,117,98,50,53,106,90,81,61,61>>

\* MDEyMzQ1Njc4OWFiY2RlZg==
PeerKeyDigitsValue ==
    <<77,68,69,121,77,122,81,49,78,106,99,52,79,87,70,105,89,50,82,108,90,103,
      61,61>>

\* ABCDEFGHIJKLMNOPQRSTUVWXYZabcdefghijklmnopqrstuvwxyz0123456789+/
ENCODEMAP ==
    <<65,66,67,68,69,70,71,72,73,74,75,76,77,78,79,80,81,82,83,84,85,86,87,88,
      89,90,97,98,99,100,101,102,103,104,105,106,107,108,109,110,111,112,113,
      114,115,116,117,118,119,120,121,122,48,49,50,51,52,53,54,55,56,57,43,47>>

(***************************************************************************)
(* C strings in a buffer.                                                  *)
(***************************************************************************)
NOMATCH == "NOMATCH"
MATCH == "MATCH"

\* A buffer of n zero bytes (memset (buf, 0, sizeof (buf))).
ZeroBuf(n) == [i \in 1..n |-> NUL]

\* The byte a pointer refers to; past the buffer there is nothing to read.
At(buf, p) == IF p >= 1 /\ p <= Len(buf) THEN buf[p] ELSE NUL

\* memchr (buf, '\0', sizeof (buf)) != NULL
HasNul(buf) == \E i \in 1..Len(buf) : buf[i] = NUL

\* Writes the bytes of s into buf from index p on.
PutAt(buf, p, s) ==
    [i \in 1..Len(buf) |->
        IF i >= p /\ i < p + Len(s) THEN s[i - p + 1] ELSE buf[i]]

\* The index of the first NUL at or after p (the end of the string at p).
StrEnd(buf, p) ==
    CHOOSE e \in p..(Len(buf) + 1) :
        At(buf, e) = NUL /\ \A j \in p..(e - 1) : buf[j] # NUL

\* strlen (pos)
strlen(buf, p) == StrEnd(buf, p) - p

\* The C string that starts at p, as a sequence.
CStr(buf, p) == SubSeq(buf, p, StrEnd(buf, p) - 1)

tolower(c) == IF c >= 65 /\ c <= 90 THEN c + 32 ELSE c

\* Two bytes compare equal, with or without regard to letter case.
SameChar(a, b, case_insensitive) ==
    IF case_insensitive THEN tolower(a) = tolower(b) ELSE a = b

\* memcmp (s, buf + p, n) == 0 for the first n bytes of s.
MemEq(s, buf, p, n) == \A k \in 1..n : At(buf, p + k - 1) = s[k]

\* strstr (p, needle): the index of the first occurrence of needle in the
\* string at p, or 0
strstr(buf, p, needle) ==
    LET last == StrEnd(buf, p) - Len(needle)
        found(q) == MemEq(needle, buf, q, Len(needle))
    IN  IF \E q \in p..last : found(q)
        THEN CHOOSE q \in p..last :
                 found(q) /\ \A j \in p..(q - 1) : ~found(j)
        ELSE 0

(***************************************************************************)
(* nn_ws_match_token, nn_ws_match_value, nn_ws_validate_value.             *)
(***************************************************************************)
RECURSIVE SkipLeadingSp(_, _)
SkipLeadingSp(buf, p) ==
    IF At(buf, p) = SP /\ At(buf, p) # NUL THEN SkipLeadingSp(buf, p + 1) ELSE p

\* The compare loop of the token matcher: the position after the token, or 0
\* when a byte differs or the subject ends before the token does.
RECURSIVE TokenLoop(_, _, _, _, _)
TokenLoop(token, k, buf, p, case_insensitive) ==
    IF k > Len(token) THEN p
    ELSE IF At(buf, p) = NUL THEN 0
    ELSE IF SameChar(token[k], At(buf, p), case_insensitive)
         THEN TokenLoop(token, k + 1, buf, p + 1, case_insensitive)
         ELSE 0

\* A variant of the token matcher that moves the caller's cursor past the
\* leading spaces before it compares.
MatchTokenMovingCursor(token, buf, subj, case_insensitive, ignore_leading_sp) ==
    LET pos == IF ignore_leading_sp THEN SkipLeadingSp(buf, subj) ELSE subj
        Compared(after) ==
            IF after = 0 THEN [rc |-> NOMATCH, subj |-> pos]
            ELSE [rc |-> MATCH, subj |-> after]
    IN  Compared(TokenLoop(token, 1, buf, pos, case_insensitive))

\* [rc, subj]: subj is the caller's cursor after the call.
nn_ws_match_token(token, buf, subj, case_insensitive, ignore_leading_sp) ==
    LET pos == IF ignore_leading_sp THEN SkipLeadingSp(buf, subj) ELSE subj
        Compared(after) ==
            IF after = 0 THEN [rc |-> NOMATCH, subj |-> subj]
            ELSE [rc |-> MATCH, subj |-> after]
    IN  Compared(TokenLoop(token, 1, buf, pos, case_insensitive))

RECURSIVE TrimLeading(_, _, _)
TrimLeading(buf, start, end) ==
    IF At(buf, start) = SP /\ start < end
    THEN TrimLeading(buf, start + 1, end) ELSE start

RECURSIVE TrimTrailing(_, _, _)
TrimTrailing(buf, start, end) ==
    IF At(buf, end - 1) = SP /\ start < end
    THEN TrimTrailing(buf, start, end - 1) ELSE end

\* A variant of the value matcher that leaves the trailing spaces in the
\* slice.
MatchValueUntrimmed(termseq, buf, subj, ignore_leading_sp, ignore_trailing_sp) ==
    LET Trimmed(start, end) ==
            [rc |-> MATCH, subj |-> end + Len(termseq), addr |-> start,
             len |-> end - start]
        Found(end) ==
            IF end = 0
            THEN [rc |-> NOMATCH, subj |-> subj, addr |-> 0, len |-> 0]
            ELSE Trimmed(IF ignore_leading_sp
                         THEN TrimLeading(buf, subj, end) ELSE subj, end)
    IN  Found(strstr(buf, subj, termseq))

\* [rc, subj, addr, len]: addr and len are what the call stores through its
\* out-pointers (it stores NULL and 0 before it searches).
nn_ws_match_value(termseq, buf, subj, ignore_leading_sp, ignore_trailing_sp) ==
    LET Trimmed(start, end) ==
            IF start = end
            THEN [rc |-> MATCH, subj |-> end + Len(termseq), addr |-> start,
                  len |-> 0]
            ELSE [rc |-> MATCH, subj |-> end + Len(termseq), addr |-> start,
                  len |-> (IF ignore_trailing_sp
                           THEN TrimTrailing(buf, start, end) ELSE end) - start]
        Found(end) ==
            IF end = 0
            THEN [rc |-> NOMATCH, subj |-> subj, addr |-> 0, len |-> 0]
            ELSE Trimmed(IF ignore_leading_sp
                         THEN TrimLeading(buf, subj, end) ELSE subj, end)
    IN  Found(strstr(buf, subj, termseq))

\* The compare loop of nn_ws_validate_value over the bytes at subj.
RECURSIVE ValidateLoop(_, _, _, _, _)
ValidateLoop(expected, k, buf, p, case_insensitive) ==
    IF k > Len(expected) \/ At(buf, p) = NUL THEN TRUE
    ELSE IF SameChar(expected[k], At(buf, p), case_insensitive)
         THEN ValidateLoop(expected, k + 1, buf, p + 1, case_insensitive)
         ELSE FALSE

\* TRUE for MATCH.  subj is a slice of buf: its address and its length.
nn_ws_validate_value(expected, buf, subj, subj_len, case_insensitive) ==
    IF Len(expected) # subj_len THEN FALSE
    ELSE ValidateLoop(expected, 1, buf, subj, case_insensitive)

(***************************************************************************)
(* The SP map and the peer check of the local socket.                      *)
(***************************************************************************)
NN_WS_HANDSHAKE_SP_MAP ==
    \* x-nanomsg-pair
    << [sp |-> "PAIR", ws_sp |-> <<120,45,110,97,110,111,109,115,103,45,112,
        97,105,114>>],
       \* x-nanomsg-req
       [sp |-> "REQ", ws_sp |-> <<120,45,110,97,110,111,109,115,103,45,114,
           101,113>>],
       \* x-nanomsg-rep
       [sp |-> "REP", ws_sp |-> <<120,45,110,97,110,111,109,115,103,45,114,
           101,112>>],
       \* x-nanomsg-pub
       [sp |-> "PUB", ws_sp |-> <<120,45,110,97,110,111,109,115,103,45,112,
           117,98>>],
       \* x-nanomsg-sub
       [sp |-> "SUB", ws_sp |-> <<120,45,110,97,110,111,109,115,103,45,115,
           117,98>>],
       \* x-nanomsg-surveyor
       [sp |-> "SURVEYOR", ws_sp |-> <<120,45,110,97,110,111,109,115,103,45,
           115,117,114,118,101,121,111,114>>],
       \* x-nanomsg-respondent
       [sp |-> "RESPONDENT", ws_sp |-> <<120,45,110,97,110,111,109,115,103,45,
           114,101,115,112,111,110,100,101,110,116>>],
       \* x-nanomsg-push
       [sp |-> "PUSH", ws_sp |-> <<120,45,110,97,110,111,109,115,103,45,112,
           117,115,104>>],
       \* x-nanomsg-pull
       [sp |-> "PULL", ws_sp |-> <<120,45,110,97,110,111,109,115,103,45,112,
           117,108,108>>],
       \* x-nanomsg-bus
       [sp |-> "BUS", ws_sp |-> <<120,45,110,97,110,111,109,115,103,45,98,117,
           115>>] >>

NN_WS_HANDSHAKE_SP_MAP_LEN == Len(NN_WS_HANDSHAKE_SP_MAP)

\* nn_pipebase_ispeer: whether the local socket type accepts the remote one.
nn_pipebase_ispeer(local, remote) ==
    <<local, remote>> \in
        { <<"PAIR", "PAIR">>, <<"REQ", "REP">>, <<"REP", "REQ">>,
          <<"PUB", "SUB">>, <<"SUB", "PUB">>,
          <<"SURVEYOR", "RESPONDENT">>, <<"RESPONDENT", "SURVEYOR">>,
          <<"PUSH", "PULL">>, <<"PULL", "PUSH">>, <<"BUS", "BUS">> }

(***************************************************************************)
(* Parsed slices: for every recognised header its address in the receive   *)
(* buffer and its length.                                                  *)
SliceNames ==
    { "host", "origin", "key", "upgrade", "conn", "version", "protocol",
      "extensions", "uri", "status_code", "reason_phrase", "server",
      "accept_key" }

(* A slice is [buf, addr, len]: the buffer its pointer refers to, the       *)
(* index there, and the length.                                            *)
NullSlice == [buf |-> "NULL", addr |-> 0, len |-> 0]

\* What the fields hold before anything has written them.
UninitSlice == [buf |-> "uninit", addr |-> -1, len |-> -1]

\* What a call of the value matcher on buffer `tag` stores in a slice.
StoredSlice(tag, value) ==
    IF value.addr = 0 THEN NullSlice
    ELSE [buf |-> tag, addr |-> value.addr, len |-> value.len]

UninitSlices == [n \in SliceNames |-> UninitSlice]

\* The slices with those of `names` set to NULL and 0.
ResetSlices(sl, names) ==
    [n \in SliceNames |-> IF n \in names THEN NullSlice ELSE sl[n]]

\* The headers each parser recognises, in the order it tries them.
RequestHeaders ==
    \* Host:
    << [name |-> <<72,111,115,116,58>>, field |-> "host"],
       \* Origin:
       [name |-> <<79,114,105,103,105,110,58>>, field |-> "origin"],
       \* Sec-WebSocket-Key:
       [name |-> <<83,101,99,45,87,101,98,83,111,99,107,101,116,45,75,101,121,
           58>>, field |-> "key"],
       [name |-> HdrUpgrade, field |-> "upgrade"],
       [name |-> HdrConnection, field |-> "conn"],
       \* Sec-WebSocket-Version:
       [name |-> <<83,101,99,45,87,101,98,83,111,99,107,101,116,45,86,101,114,
           115,105,111,110,58>>, field |-> "version"],
       \* Sec-WebSocket-Protocol:
       [name |-> <<83,101,99,45,87,101,98,83,111,99,107,101,116,45,80,114,111,
           116,111,99,111,108,58>>, field |-> "protocol"],
       [name |-> HdrExtensions, field |-> "extensions"] >>

ResponseHeaders ==
    \* Server:
    << [name |-> <<83,101,114,118,101,114,58>>, field |-> "server"],
       \* Sec-WebSocket-Accept:
       [name |-> <<83,101,99,45,87,101,98,83,111,99,107,101,116,45,65,99,99,
           101,112,116,58>>, field |-> "accept_key"],
       [name |-> HdrUpgrade, field |-> "upgrade"],
       [name |-> HdrConnection, field |-> "conn"],
       \* Sec-WebSocket-Version-Server:
       [name |-> <<83,101,99,45,87,101,98,83,111,99,107,101,116,45,86,101,114,
           115,105,111,110,45,83,101,114,118,101,114,58>>,
           field |-> "version"],
       \* Sec-WebSocket-Protocol-Server:
       [name |-> <<83,101,99,45,87,101,98,83,111,99,107,101,116,45,80,114,111,
           116,111,99,111,108,45,83,101,114,118,101,114,58>>,
           field |-> "protocol"],
       [name |-> HdrExtensions, field |-> "extensions"] >>

\* The index of the first header of `headers` whose name matches at pos, or 0.
RECURSIVE FirstHeader(_, _, _, _)
FirstHeader(headers, k, buf, pos) ==
    IF k > Len(headers) THEN 0
    ELSE IF nn_ws_match_token(headers[k].name, buf, pos, TRUE, FALSE).rc = MATCH
         THEN k
         ELSE FirstHeader(headers, k + 1, buf, pos)

\* A variant of the header loop that takes a header it does not know for
\* the end of the headers.
RECURSIVE HeaderLoopEndingAtUnknown(_, _, _, _, _)
HeaderLoopEndingAtUnknown(headers, tag, buf, pos, sl) ==
    LET Known(h, value) ==
            LET stored == [sl EXCEPT ![headers[h].field] =
                              StoredSlice(tag, value)]
            IN  IF value.rc # MATCH
                THEN [rc |-> "RECV_MORE", pos |-> value.subj, sl |-> stored]
                ELSE HeaderLoopEndingAtUnknown(headers, tag, buf, value.subj,
                                               stored)
        Other(blank, skipped) ==
            IF blank.rc = MATCH
            THEN [rc |-> "parsed", pos |-> blank.subj, sl |-> sl]
            ELSE IF skipped.rc # MATCH
            THEN [rc |-> "RECV_MORE", pos |-> skipped.subj, sl |-> sl]
            ELSE [rc |-> "parsed", pos |-> skipped.subj, sl |-> sl]
        Header(h) ==
            IF h # 0
            THEN Known(h, nn_ws_match_value(NN_WS_HANDSHAKE_CRLF, buf,
                     nn_ws_match_token(headers[h].name, buf, pos,
                                       TRUE, FALSE).subj,
                     TRUE, TRUE))
            ELSE Other(nn_ws_match_token(NN_WS_HANDSHAKE_CRLF, buf, pos,
                                         TRUE, FALSE),
                       nn_ws_match_value(NN_WS_HANDSHAKE_CRLF, buf, pos,
                                         TRUE, TRUE))
    IN  IF strlen(buf, pos) = 0 THEN [rc |-> "parsed", pos |-> pos, sl |-> sl]
        ELSE Header(FirstHeader(headers, 1, buf, pos))

\* The header loop of both parsers: [rc, pos, sl], rc "parsed" when the loop
\* was left (by the blank line or by the end of the string) and "RECV_MORE"
\* when a value had no CRLF.
RECURSIVE HeaderLoop(_, _, _, _, _)
HeaderLoop(headers, tag, buf, pos, sl) ==
    LET \* A header the parser knows: its value goes to the header's slice.
        Known(h, value) ==
            LET stored == [sl EXCEPT ![headers[h].field] =
                              StoredSlice(tag, value)]
            IN  IF value.rc # MATCH
                THEN [rc |-> "RECV_MORE", pos |-> value.subj, sl |-> stored]
                ELSE HeaderLoop(headers, tag, buf, value.subj, stored)
        \* The blank line ends the loop; any other header is skipped.
        Other(blank, skipped) ==
            IF blank.rc = MATCH
            THEN [rc |-> "parsed", pos |-> blank.subj, sl |-> sl]
            ELSE IF skipped.rc # MATCH
            THEN [rc |-> "RECV_MORE", pos |-> skipped.subj, sl |-> sl]
            ELSE HeaderLoop(headers, tag, buf, skipped.subj, sl)
        Header(h) ==
            IF h # 0
            THEN Known(h, nn_ws_match_value(NN_WS_HANDSHAKE_CRLF, buf,
                     nn_ws_match_token(headers[h].name, buf, pos,
                                       TRUE, FALSE).subj,
                     TRUE, TRUE))
            ELSE Other(nn_ws_match_token(NN_WS_HANDSHAKE_CRLF, buf, pos,
                                         TRUE, FALSE),
                       nn_ws_match_value(NN_WS_HANDSHAKE_CRLF, buf, pos,
                                         TRUE, TRUE))
    IN  IF strlen(buf, pos) = 0 THEN [rc |-> "parsed", pos |-> pos, sl |-> sl]
        ELSE Header(FirstHeader(headers, 1, buf, pos))

(***************************************************************************)
(* nn_ws_handshake_parse_client_opening.  The result is [rc, sl,           *)
(* response_code, abort]: the return code, the slices and the response     *)
(* code the call leaves in the instance, and the assertion that failed     *)
(* ("none" when none did; rc is then "ABORT").                             *)
(***************************************************************************)
RequestSlices ==
    { "host", "origin", "key", "upgrade", "conn", "version", "protocol", "uri" }

\* A variant of the lookup that tells upper case from lower case.
RECURSIVE SpMapLookupExact(_, _, _)
SpMapLookupExact(i, buf, slice) ==
    IF i > NN_WS_HANDSHAKE_SP_MAP_LEN THEN 0
    ELSE IF nn_ws_validate_value(NN_WS_HANDSHAKE_SP_MAP[i].ws_sp, buf,
                                 slice.addr, slice.len, FALSE)
         THEN i
         ELSE SpMapLookupExact(i + 1, buf, slice)

\* The index of the first SP map entry whose token equals the protocol
\* slice, or 0.
RECURSIVE SpMapLookup(_, _, _)
SpMapLookup(i, buf, slice) ==
    IF i > NN_WS_HANDSHAKE_SP_MAP_LEN THEN 0
    ELSE IF nn_ws_validate_value(NN_WS_HANDSHAKE_SP_MAP[i].ws_sp, buf,
                                 slice.addr, slice.len, TRUE)
         THEN i
         ELSE SpMapLookup(i + 1, buf, slice)

\* A variant of the checks that accepts every request without a protocol
\* header.
ValidateAcceptingNoProtocol(buf, sl, local_sp) ==
    LET i == SpMapLookup(1, buf, sl["protocol"])
        out(rc, code) ==
            [rc |-> rc, sl |-> sl, response_code |-> code, abort |-> "none"]
    IN  IF sl["host"].addr = 0 \/ sl["upgrade"].addr = 0 \/ sl["conn"].addr = 0
           \/ sl["key"].addr = 0 \/ sl["version"].addr = 0
        THEN out("INVALID", "WSPROTO")
        \* 13
        ELSE IF ~nn_ws_validate_value(<<49,51>>, buf, sl["version"].addr,
                                      sl["version"].len, TRUE)
        THEN out("INVALID", "WSVERSION")
        ELSE IF ~nn_ws_validate_value(ValWebsocket, buf, sl["upgrade"].addr,
                                      sl["upgrade"].len, TRUE)
        THEN out("INVALID", "WSPROTO")
        ELSE IF ~nn_ws_validate_value(ValUpgrade, buf, sl["conn"].addr,
                                      sl["conn"].len, TRUE)
        THEN out("INVALID", "WSPROTO")
        ELSE IF sl["protocol"].addr # 0
        THEN IF i = 0 THEN out("INVALID", "UNKNOWNTYPE")
             ELSE IF nn_pipebase_ispeer(local_sp, NN_WS_HANDSHAKE_SP_MAP[i].sp)
                  THEN out("VALID", "OK")
                  ELSE out("INVALID", "NOTPEER")
        ELSE out("VALID", "OK")

\* A variant of the checks that does not ask for a key.
ValidateWithoutKey(buf, sl, local_sp) ==
    LET i == SpMapLookup(1, buf, sl["protocol"])
        out(rc, code) ==
            [rc |-> rc, sl |-> sl, response_code |-> code, abort |-> "none"]
    IN  IF sl["host"].addr = 0 \/ sl["upgrade"].addr = 0 \/ sl["conn"].addr = 0
           \/ sl["version"].addr = 0
        THEN out("INVALID", "WSPROTO")
        \* 13
        ELSE IF ~nn_ws_validate_value(<<49,51>>, buf, sl["version"].addr,
                                      sl["version"].len, TRUE)
        THEN out("INVALID", "WSVERSION")
        ELSE IF ~nn_ws_validate_value(ValWebsocket, buf, sl["upgrade"].addr,
                                      sl["upgrade"].len, TRUE)
        THEN out("INVALID", "WSPROTO")
        ELSE IF ~nn_ws_validate_value(ValUpgrade, buf, sl["conn"].addr,
                                      sl["conn"].len, TRUE)
        THEN out("INVALID", "WSPROTO")
        ELSE IF sl["protocol"].addr # 0
        THEN IF i = 0 THEN out("INVALID", "UNKNOWNTYPE")
             ELSE IF nn_pipebase_ispeer(local_sp, NN_WS_HANDSHAKE_SP_MAP[i].sp)
                  THEN out("VALID", "OK")
                  ELSE out("INVALID", "NOTPEER")
        ELSE IF nn_pipebase_ispeer(local_sp, "PAIR")
             THEN out("VALID", "OK")
             ELSE out("INVALID", "NOTPEER")

\* A variant of the checks that looks at the value of Upgrade before it
\* looks at the version.
ValidateUpgradeFirst(buf, sl, local_sp) ==
    LET i == SpMapLookup(1, buf, sl["protocol"])
        out(rc, code) ==
            [rc |-> rc, sl |-> sl, response_code |-> code, abort |-> "none"]
    IN  IF sl["host"].addr = 0 \/ sl["upgrade"].addr = 0 \/ sl["conn"].addr = 0
           \/ sl["key"].addr = 0 \/ sl["version"].addr = 0
        THEN out("INVALID", "WSPROTO")
        ELSE IF ~nn_ws_validate_value(ValWebsocket, buf, sl["upgrade"].addr,
                                      sl["upgrade"].len, TRUE)
        THEN out("INVALID", "WSPROTO")
        \* 13
        ELSE IF ~nn_ws_validate_value(<<49,51>>, buf, sl["version"].addr,
                                      sl["version"].len, TRUE)
        THEN out("INVALID", "WSVERSION")
        ELSE IF ~nn_ws_validate_value(ValUpgrade, buf, sl["conn"].addr,
                                      sl["conn"].len, TRUE)
        THEN out("INVALID", "WSPROTO")
        ELSE IF sl["protocol"].addr # 0
        THEN IF i = 0 THEN out("INVALID", "UNKNOWNTYPE")
             ELSE IF nn_pipebase_ispeer(local_sp, NN_WS_HANDSHAKE_SP_MAP[i].sp)
                  THEN out("VALID", "OK")
                  ELSE out("INVALID", "NOTPEER")
        ELSE IF nn_pipebase_ispeer(local_sp, "PAIR")
             THEN out("VALID", "OK")
             ELSE out("INVALID", "NOTPEER")

\* The checks that follow the header loop (the required headers first).
ValidateClientOpening(buf, sl, local_sp) ==
    LET i == SpMapLookup(1, buf, sl["protocol"])
        out(rc, code) ==
            [rc |-> rc, sl |-> sl, response_code |-> code, abort |-> "none"]
    IN  IF sl["host"].addr = 0 \/ sl["upgrade"].addr = 0 \/ sl["conn"].addr = 0
           \/ sl["key"].addr = 0 \/ sl["version"].addr = 0
        THEN out("INVALID", "WSPROTO")
        \* 13
        ELSE IF ~nn_ws_validate_value(<<49,51>>, buf, sl["version"].addr,
                                      sl["version"].len, TRUE)
        THEN out("INVALID", "WSVERSION")
        ELSE IF ~nn_ws_validate_value(ValWebsocket, buf, sl["upgrade"].addr,
                                      sl["upgrade"].len, TRUE)
        THEN out("INVALID", "WSPROTO")
        ELSE IF ~nn_ws_validate_value(ValUpgrade, buf, sl["conn"].addr,
                                      sl["conn"].len, TRUE)
        THEN out("INVALID", "WSPROTO")
        ELSE IF sl["protocol"].addr # 0
        THEN IF i = 0 THEN out("INVALID", "UNKNOWNTYPE")
             ELSE IF nn_pipebase_ispeer(local_sp, NN_WS_HANDSHAKE_SP_MAP[i].sp)
                  THEN out("VALID", "OK")
                  ELSE out("INVALID", "NOTPEER")
        ELSE IF nn_pipebase_ispeer(local_sp, "PAIR")
             THEN out("VALID", "OK")
             ELSE out("INVALID", "NOTPEER")

nn_ws_handshake_parse_client_opening(buf, sl, response_code, local_sp) ==
    LET sl0 == ResetSlices(sl, RequestSlices)
        more(s, code) ==
            [rc |-> "RECV_MORE", sl |-> s, response_code |-> code,
             abort |-> "none"]
        \* The header fields, then the checks of their values.
        Headers(loop) ==
            IF loop.rc = "RECV_MORE" THEN more(loop.sl, "NULL")
            ELSE IF strlen(buf, loop.pos) # 0
            THEN [rc |-> "ABORT", sl |-> loop.sl, response_code |-> "NULL",
                  abort |-> "parse_client_opening: strlen (pos) == 0"]
            ELSE ValidateClientOpening(buf, loop.sl, local_sp)
        Crlf(crlf, sl1) ==
            IF crlf.rc # MATCH THEN more(sl1, "NULL")
            ELSE Headers(HeaderLoop(RequestHeaders, "opening_hs", buf,
                                    crlf.subj, sl1))
        Http(http, sl1) ==
            IF http.rc # MATCH THEN more(sl1, "NULL")
            ELSE Crlf(nn_ws_match_token(NN_WS_HANDSHAKE_CRLF, buf, http.subj,
                                        FALSE, FALSE), sl1)
        \* HTTP/1.1
        Version(uri, sl1) ==
            IF uri.rc # MATCH THEN more(sl1, "NULL")
            ELSE Http(nn_ws_match_token(<<72,84,84,80,47,49,46,49>>, buf,
                                        uri.subj, FALSE, FALSE), sl1)
        Uri(uri) ==
            Version(uri, [sl0 EXCEPT !["uri"] = StoredSlice("opening_hs", uri)])
        Get(get) ==
            IF get.rc # MATCH THEN more(sl0, "NULL")
            ELSE Uri(nn_ws_match_value(TokSp, buf, get.subj, FALSE, FALSE))
    IN  IF ~HasNul(buf)
        THEN [rc |-> "ABORT", sl |-> sl, response_code |-> response_code,
              abort |-> "parse_client_opening: no NUL in opening_hs"]
        ELSE IF strstr(buf, 1, NN_WS_HANDSHAKE_TERMSEQ) = 0
        THEN more(sl, response_code)
        \* GET 
        ELSE Get(nn_ws_match_token(<<71,69,84,32>>, buf, 1, FALSE, FALSE))

(***************************************************************************)
(* nn_ws_handshake_parse_server_response.  The result is [rc, sl, abort].  *)
(***************************************************************************)
ResponseSlices ==
    { "status_code", "reason_phrase", "server", "accept_key", "upgrade",
      "conn", "version", "protocol" }

ValidateServerResponse(buf, sl, expected_accept_key) ==
    IF sl["status_code"].addr = 0 \/ sl["upgrade"].addr = 0
       \/ sl["conn"].addr = 0 \/ sl["accept_key"].addr = 0
    THEN "INVALID"
    \* 101
    ELSE IF ~nn_ws_validate_value(<<49,48,49>>, buf, sl["status_code"].addr,
                                  sl["status_code"].len, TRUE)
    THEN "INVALID"
    ELSE IF ~nn_ws_validate_value(ValWebsocket, buf, sl["upgrade"].addr,
                                  sl["upgrade"].len, TRUE)
    THEN "INVALID"
    ELSE IF ~nn_ws_validate_value(ValUpgrade, buf, sl["conn"].addr,
                                  sl["conn"].len, TRUE)
    THEN "INVALID"
    ELSE IF ~nn_ws_validate_value(expected_accept_key, buf,
                                  sl["accept_key"].addr, sl["accept_key"].len,
                                  TRUE)
    THEN "INVALID"
    ELSE "VALID"

nn_ws_handshake_parse_server_response(buf, sl, expected_accept_key) ==
    LET sl0 == ResetSlices(sl, ResponseSlices)
        more(s) == [rc |-> "RECV_MORE", sl |-> s, abort |-> "none"]
        \* The header fields, then the checks of their values.
        Headers(loop) ==
            IF loop.rc = "RECV_MORE" THEN more(loop.sl)
            ELSE IF strlen(buf, loop.pos) # 0
            THEN [rc |-> "ABORT", sl |-> loop.sl,
                  abort |-> "parse_server_response: strlen (pos) == 0"]
            ELSE [rc |-> ValidateServerResponse(buf, loop.sl,
                                                expected_accept_key),
                  sl |-> loop.sl, abort |-> "none"]
        Phrase(reason, sl2) ==
            IF reason.rc # MATCH THEN more(sl2)
            ELSE Headers(HeaderLoop(ResponseHeaders, "response", buf,
                                    reason.subj, sl2))
        Reason(reason, sl1) ==
            Phrase(reason, [sl1 EXCEPT !["reason_phrase"] =
                               StoredSlice("response", reason)])
        Status(code, sl1) ==
            IF code.rc # MATCH THEN more(sl1)
            ELSE Reason(nn_ws_match_value(NN_WS_HANDSHAKE_CRLF, buf, code.subj,
                                          FALSE, FALSE), sl1)
        Code(code) ==
            Status(code, [sl0 EXCEPT !["status_code"] =
                             StoredSlice("response", code)])
        Http(http) ==
            IF http.rc # MATCH THEN more(sl0)
            ELSE Code(nn_ws_match_value(TokSp, buf, http.subj, FALSE, FALSE))
    IN  IF ~HasNul(buf)
        THEN [rc |-> "ABORT", sl |-> sl,
              abort |-> "parse_server_response: no NUL in response"]
        ELSE IF strstr(buf, 1, NN_WS_HANDSHAKE_TERMSEQ) = 0 THEN more(sl)
        \* HTTP/1.1 
        ELSE Http(nn_ws_match_token(<<72,84,84,80,47,49,46,49,32>>, buf, 1,
                                    FALSE, FALSE))

(***************************************************************************)
(* 32-bit words (uint32_t).  A word is <<high, low>>, its two 16-bit       *)
(* halves; the bitwise operators work on four bits at a time.              *)
(***************************************************************************)
Pow2(n) == 2 ^ n

Half == Pow2(16)

Bit(a, k) == (a \div Pow2(k)) % 2

\* One bit of ^, & or |.
BitOp(op, x, y) ==
    CASE op = "^" -> (x + y) % 2
      [] op = "&" -> x * y
      [] op = "|" -> IF x + y > 0 THEN 1 ELSE 0

NibbleOp(op) ==
    [a \in 0..15 |-> [b \in 0..15 |->
        BitOp(op, Bit(a, 0), Bit(b, 0)) + 2 * BitOp(op, Bit(a, 1), Bit(b, 1))
        + 4 * BitOp(op, Bit(a, 2), Bit(b, 2))
        + 8 * BitOp(op, Bit(a, 3), Bit(b, 3))]]

XorTable == NibbleOp("^")
AndTable == NibbleOp("&")
OrTable == NibbleOp("|")

RECURSIVE HalfOp(_, _, _, _)
HalfOp(table, a, b, nibbles) ==
    IF nibbles = 0 THEN 0
    ELSE table[a % 16][b % 16]
         + 16 * HalfOp(table, a \div 16, b \div 16, nibbles - 1)

WordOp(table, a, b) ==
    << HalfOp(table, a[1], b[1], 4), HalfOp(table, a[2], b[2], 4) >>

Xor32(a, b) == WordOp(XorTable, a, b)
And32(a, b) == WordOp(AndTable, a, b)
Or32(a, b) == WordOp(OrTable, a, b)

\* A variant of the sum below that drops the carry out of the low half.
AddWithoutCarry(a, b) == << (a[1] + b[1]) % Half, (a[2] + b[2]) % Half >>

\* a + b in uint32_t arithmetic.
Add32(a, b) ==
    << (a[1] + b[1] + ((a[2] + b[2]) \div Half)) % Half, (a[2] + b[2]) % Half >>

\* Rotation to the left by fewer than 16 bits.
RolShort(w, bits) ==
    << ((w[1] * Pow2(bits)) % Half) + (w[2] \div Pow2(16 - bits)),
       ((w[2] * Pow2(bits)) % Half) + (w[1] \div Pow2(16 - bits)) >>

\* #define sha1_rol32(num,bits) ((num << bits) | (num >> (32 - bits)))
sha1_rol32(num, bits) ==
    IF bits < 16 THEN RolShort(num, bits)
    ELSE RolShort(<<num[2], num[1]>>, bits - 16)

\* Byte k of a word, 0 the least significant.
WordByte(w, k) == (w[2 - (k \div 2)] \div Pow2(8 * (k % 2))) % 256

\* The word with byte k set to data.
WithByte(w, k, data) ==
    [w EXCEPT ![2 - (k \div 2)] = @ + (data - WordByte(w, k)) * Pow2(8 * (k % 2))]

(***************************************************************************)
(* SHA-1, byte by byte.  A hash is [buffer, state, bytes_hashed,           *)
(* buffer_offset, is_little_endian]; buffer and state are the 32-bit       *)
(* words of the C arrays, indexed from 0.                                  *)
(***************************************************************************)
SHA1_HASH_LEN == 20
SHA1_BLOCK_LEN == 64

\* The position (0 the least significant) that byte j of an array of words
\* takes in its word, on either byte order.
ByteLane(is_little_endian, j) == IF is_little_endian THEN j % 4 ELSE 3 - (j % 4)

\* The words with byte j of their memory set to data.
StoreByte(words, is_little_endian, j, data) ==
    [words EXCEPT ![j \div 4] =
        WithByte(@, ByteLane(is_little_endian, j), data)]

\* Byte j of the memory of the words.
LoadByte(words, is_little_endian, j) ==
    WordByte(words[j \div 4], ByteLane(is_little_endian, j))

sha1_init(is_little_endian) ==
    [buffer |-> [i \in 0..15 |-> <<0, 0>>],
     state |-> [i \in 0..4 |->
                  CASE i = 0 -> <<26437, 8961>>   \* 0x67452301
                    [] i = 1 -> <<61389, 43913>>   \* 0xefcdab89
                    [] i = 2 -> <<39098, 56574>>   \* 0x98badcfe
                    [] i = 3 -> <<4146, 21622>>    \* 0x10325476
                    [] i = 4 -> <<50130, 57840>>], \* 0xc3d2e1f0
     bytes_hashed |-> 0,
     buffer_offset |-> 0,
     is_little_endian |-> is_little_endian]

\* One pass of the loop over i in sha1_add; r is [a, b, c, d, e, buffer].
Sha1Round(i, r) ==
    LET mixed == Xor32(Xor32(r.buffer[(i + 13) % 16], r.buffer[(i + 8) % 16]),
                       Xor32(r.buffer[(i + 2) % 16], r.buffer[i % 16]))
        Parity(bcd) ==
            IF i < 40 THEN Add32(bcd, <<28377, 60321>>)              \* 0x6ED9EBA1
            ELSE Add32(bcd, <<51810, 49622>>)                        \* 0xCA62C1D6
        f == IF i < 20
             THEN Add32(Xor32(r.d, And32(r.b, Xor32(r.c, r.d))),
                        <<23170, 31129>>)                            \* 0x5A827999
             ELSE IF i >= 40 /\ i < 60
             THEN Add32(Or32(And32(r.b, r.c), And32(r.d, Or32(r.b, r.c))),
                        <<36635, 48348>>)                            \* 0x8F1BBCDC
             ELSE Parity(Xor32(r.b, Xor32(r.c, r.d)))
        Mixed(buffer) ==
            [a |-> Add32(f, Add32(sha1_rol32(r.a, 5),
                                  Add32(r.e, buffer[i % 16]))),
             b |-> r.a, c |-> sha1_rol32(r.b, 30), d |-> r.c, e |-> r.d,
             buffer |-> buffer]
    IN  Mixed(IF i >= 16
              THEN [r.buffer EXCEPT ![i % 16] = sha1_rol32(mixed, 1)]
              ELSE r.buffer)

IsWord32(w) == w \in (0..(Half - 1)) \X (0..(Half - 1))

\* The passes lo..hi of the loop, in order.
RECURSIVE Sha1Rounds(_, _, _)
Sha1Rounds(lo, hi, r) ==
    IF lo = hi THEN Sha1Round(lo, r)
    ELSE LET mid == (lo + hi) \div 2
             Rest(first) ==
                 IF IsWord32(first.a) THEN Sha1Rounds(mid + 1, hi, first)
                 ELSE first
         IN  Rest(Sha1Rounds(lo, mid, r))

sha1_add(s, data) ==
    LET at == IF s.is_little_endian
              THEN s.buffer_offset - (s.buffer_offset % 4)
                   + (3 - (s.buffer_offset % 4))       \* buffer_offset ^ 3
              ELSE s.buffer_offset
        Stored(buffer) ==
            [s EXCEPT !.buffer = buffer, !.buffer_offset = s.buffer_offset + 1]
        Hashed(r) ==
            [s EXCEPT !.buffer = r.buffer,
                      !.state = [i \in 0..4 |->
                          CASE i = 0 -> Add32(s.state[0], r.a)
                            [] i = 1 -> Add32(s.state[1], r.b)
                            [] i = 2 -> Add32(s.state[2], r.c)
                            [] i = 3 -> Add32(s.state[3], r.d)
                            [] i = 4 -> Add32(s.state[4], r.e)],
                      !.buffer_offset = 0]
        Block(buffer) ==
            IF s.buffer_offset + 1 = SHA1_BLOCK_LEN
            THEN Hashed(Sha1Rounds(0, 79,
                     [a |-> s.state[0], b |-> s.state[1], c |-> s.state[2],
                      d |-> s.state[3], e |-> s.state[4], buffer |-> buffer]))
            ELSE Stored(buffer)
    IN  Block(StoreByte(s.buffer, s.is_little_endian, at, data))

\* bytes_hashed counts the bytes of one key and the GUID: it stays far below
\* the width of uint32_t.
sha1_hashbyte(s, data) ==
    sha1_add([s EXCEPT !.bytes_hashed = s.bytes_hashed + 1], data)

\* sha1_hashbyte for the bytes lo..hi of a sequence, in order.
RECURSIVE Sha1HashBytes(_, _, _, _)
Sha1HashBytes(s, bytes, lo, hi) ==
    IF lo > hi THEN s
    ELSE IF lo = hi THEN sha1_hashbyte(s, bytes[lo])
    ELSE LET mid == (lo + hi) \div 2
             Rest(first) ==
                 IF first.buffer_offset < SHA1_BLOCK_LEN
                 THEN Sha1HashBytes(first, bytes, mid + 1, hi)
                 ELSE first
         IN  Rest(Sha1HashBytes(s, bytes, lo, mid))

\* sha1_add for the bytes lo..hi of a sequence, in order.
RECURSIVE Sha1AddBytes(_, _, _, _)
Sha1AddBytes(s, bytes, lo, hi) ==
    IF lo > hi THEN s
    ELSE IF lo = hi THEN sha1_add(s, bytes[lo])
    ELSE LET mid == (lo + hi) \div 2
             Rest(first) ==
                 IF first.buffer_offset < SHA1_BLOCK_LEN
                 THEN Sha1AddBytes(first, bytes, mid + 1, hi)
                 ELSE first
         IN  Rest(Sha1AddBytes(s, bytes, lo, mid))

\* A state word with its four bytes in the opposite order.
SwapBytes(w) ==
    << WordByte(w, 0) * 256 + WordByte(w, 1),
       WordByte(w, 2) * 256 + WordByte(w, 3) >>

\* The 20 bytes the returned pointer refers to.
sha1_result(s) ==
    LET n == s.bytes_hashed
        length == << 0, 0, 0, (n \div Pow2(29)) % 256, (n \div Pow2(21)) % 256,
                     (n \div Pow2(13)) % 256, (n \div Pow2(5)) % 256,
                     (n * 8) % 256 >>
        \* sha1_add (s, 0x80); while (buffer_offset != 56) sha1_add (s, 0x00);
        \* then the eight bytes of the length
        zeros == (55 + SHA1_BLOCK_LEN - s.buffer_offset) % SHA1_BLOCK_LEN
        padding == <<128>> \o [i \in 1..zeros |-> 0] \o length
        Ordered(final) ==
            IF s.is_little_endian
            THEN [i \in 0..4 |-> SwapBytes(final.state[i])]
            ELSE final.state
        Bytes(state) ==
            [j \in 1..SHA1_HASH_LEN |->
                LoadByte(state, s.is_little_endian, j - 1)]
    IN  Bytes(Ordered(Sha1AddBytes(s, padding, 1, Len(padding))))

(***************************************************************************)
(* base64_encode.  The result is [rc, out]: rc the returned length or      *)
(* -ENOBUFS, out the bytes written to the output buffer.                   *)
(***************************************************************************)
\* The error number of an output buffer that is too small, as errno.h of
\* Linux has it.
ENOBUFS == 105

\* (v << 8) | ch for a word v and a byte ch.
ShlByteOr(v, ch) ==
    << ((v[1] * 256) % Half) + (v[2] \div 256), ((v[2] * 256) % Half) + ch >>

\* The low 16 bits of v >> n, for n < 16.
ShrLow(v, n) == ((v[1] % Pow2(n)) * Pow2(16 - n) + (v[2] \div Pow2(n))) % Half

\* The inner loop: while (rem >= 6) over [io, v, rem, out, err]; v is a
\* 32-bit word.
RECURSIVE EncodeDrain(_, _)
EncodeDrain(e, out_len) ==
    IF e.err \/ e.rem < 6 THEN e
    ELSE IF e.io >= out_len THEN [e EXCEPT !.rem = e.rem - 6, !.err = TRUE]
    ELSE EncodeDrain(
             [e EXCEPT !.rem = e.rem - 6, !.io = e.io + 1,
                       !.out = Append(e.out,
                           ENCODEMAP[(ShrLow(e.v, e.rem - 6) % 64) + 1])],
             out_len)

\* One pass of the loop over the input bytes: v = (v << 8) | ch in uint32_t.
EncodeByte(e, ch, out_len) ==
    IF e.err THEN e
    ELSE EncodeDrain([e EXCEPT !.v = ShlByteOr(e.v, ch),
                               !.rem = e.rem + 8], out_len)

RECURSIVE EncodeBytes(_, _, _, _, _)
EncodeBytes(e, in, lo, hi, out_len) ==
    IF lo > hi THEN e
    ELSE IF lo = hi THEN EncodeByte(e, in[lo], out_len)
    ELSE LET mid == (lo + hi) \div 2
             first == EncodeBytes(e, in, lo, mid, out_len)
         IN  IF first.err THEN first
             ELSE EncodeBytes(first, in, mid + 1, hi, out_len)

\* A variant of the padding that pads nothing.
EncodePadNone(e, out_len) == e

\* while (io & 3): pad with '='.
RECURSIVE EncodePad(_, _)
EncodePad(e, out_len) ==
    IF e.err \/ e.io % 4 = 0 THEN e
    ELSE IF e.io >= out_len THEN [e EXCEPT !.err = TRUE]
    ELSE EncodePad([e EXCEPT !.io = e.io + 1, !.out = Append(e.out, 61)],
                   out_len)

base64_encode(in, out_len) ==
    LET e0 == [io |-> 0, v |-> <<0, 0>>, rem |-> 0, out |-> << >>, err |-> FALSE]
        \* if (rem): the bits left over
        Rest(e1) ==
            IF e1.err \/ e1.rem = 0 THEN e1
            ELSE IF e1.io >= out_len THEN [e1 EXCEPT !.err = TRUE]
            ELSE [e1 EXCEPT !.io = e1.io + 1,
                            !.out = Append(e1.out,
                                ENCODEMAP[((e1.v[2] * Pow2(6 - e1.rem)) % 64) + 1])]
        Terminated(e3) ==
            IF e3.err \/ e3.io >= out_len
            THEN [rc |-> -ENOBUFS, out |-> e3.out]
            ELSE [rc |-> e3.io, out |-> e3.out]
    IN  Terminated(EncodePad(Rest(EncodeBytes(e0, in, 1, Len(in), out_len)),
                             out_len))

(***************************************************************************)
(* base64_decode.  The result is [rc, out]: rc the returned length or      *)
(* -ENOBUFS, out the bytes written to the output buffer.                   *)
(***************************************************************************)
\* The value of a character, or 255 for a character that has none; the
\* entry of the character c is DECODEMAP[c + 1].
DECODEMAP ==
    <<
      255, 255, 255, 255, 255, 255, 255, 255, 255, 255, 255, 255, 255, 255, 255, 255,
      255, 255, 255, 255, 255, 255, 255, 255, 255, 255, 255, 255, 255, 255, 255, 255,
      255, 255, 255, 255, 255, 255, 255, 255, 255, 255, 255, 62, 255, 255, 255, 63,
      52, 53, 54, 55, 56, 57, 58, 59, 60, 61, 255, 255, 255, 62, 255, 255,
      255, 0, 1, 2, 3, 4, 5, 6, 7, 8, 9, 10, 11, 12, 13, 14,
      15, 16, 17, 18, 19, 20, 21, 22, 23, 24, 25, 255, 255, 255, 255, 255,
      255, 26, 27, 28, 29, 30, 31, 32, 33, 34, 35, 36, 37, 38, 39, 40,
      41, 42, 43, 44, 45, 46, 47, 48, 49, 50, 51, 255, 255, 255, 255, 255,
      255, 255, 255, 255, 255, 255, 255, 255, 255, 255, 255, 255, 255, 255, 255, 255,
      255, 255, 255, 255, 255, 255, 255, 255, 255, 255, 255, 255, 255, 255, 255, 255,
      255, 255, 255, 255, 255, 255, 255, 255, 255, 255, 255, 255, 255, 255, 255, 255,
      255, 255, 255, 255, 255, 255, 255, 255, 255, 255, 255, 255, 255, 255, 255, 255,
      255, 255, 255, 255, 255, 255, 255, 255, 255, 255, 255, 255, 255, 255, 255, 255,
      255, 255, 255, 255, 255, 255, 255, 255, 255, 255, 255, 255, 255, 255, 255, 255,
      255, 255, 255, 255, 255, 255, 255, 255, 255, 255, 255, 255, 255, 255, 255, 255,
      255, 255, 255, 255, 255, 255, 255, 255, 255, 255, 255, 255, 255, 255, 255, 255 >>

\* isspace in the C locale.
isspace(c) == c \in {9, 10, 11, 12, 13, 32}

\* (v << 6) | ch for a word v and a value ch below 64.
ShlSixOr(v, ch) ==
    << ((v[1] * 64) % Half) + (v[2] \div 1024), ((v[2] * 64) % Half) + ch >>

\* if (rem >= 8): a byte is complete and goes to out, if out has the room.
DecodeStore(d, out_len) ==
    IF d.rem < 8 THEN d
    ELSE IF d.io >= out_len THEN [d EXCEPT !.rem = d.rem - 8, !.err = TRUE]
    ELSE [d EXCEPT !.rem = d.rem - 8, !.io = d.io + 1,
                   !.out = Append(d.out, ShrLow(d.v, d.rem - 8) % 256)]

\* A variant of the pass below that looks the padding character up in the
\* map like any other.
DecodeCharThroughPadding(d, c, out_len) ==
    IF d.err \/ d.stop \/ isspace(c) THEN d
    ELSE IF DECODEMAP[c + 1] = 255 THEN [d EXCEPT !.stop = TRUE]
    ELSE DecodeStore([d EXCEPT !.v = ShlSixOr(d.v, DECODEMAP[c + 1]),
                               !.rem = d.rem + 6], out_len)

\* One pass of the loop over the characters, over [io, v, rem, out, err,
\* stop]: stop is the break at '=' or at a character without a value.
DecodeChar(d, c, out_len) ==
    IF d.err \/ d.stop \/ isspace(c) THEN d
    ELSE IF c = 61 \/ DECODEMAP[c + 1] = 255 THEN [d EXCEPT !.stop = TRUE]
    ELSE DecodeStore([d EXCEPT !.v = ShlSixOr(d.v, DECODEMAP[c + 1]),
                               !.rem = d.rem + 6], out_len)

RECURSIVE DecodeChars(_, _, _, _, _)
DecodeChars(d, in, ii, in_len, out_len) ==
    IF ii > in_len THEN d
    ELSE DecodeChars(DecodeChar(d, in[ii], out_len), in, ii + 1, in_len,
                     out_len)

base64_decode(in, in_len, out_len) ==
    LET d0 == [io |-> 0, v |-> <<0, 0>>, rem |-> 0, out |-> << >>,
               err |-> FALSE, stop |-> FALSE]
        Returned(d) ==
            IF d.err THEN [rc |-> -ENOBUFS, out |-> d.out]
            ELSE [rc |-> d.io, out |-> d.out]
        Last(d) == IF d.err THEN d ELSE DecodeStore(d, out_len)
    IN  Returned(Last(DecodeChars(d0, in, 1, in_len, out_len)))

(***************************************************************************)
(* nn_ws_handshake_hash_key: [rc, hashed] for the bytes of a key.          *)
(***************************************************************************)
NN_WS_HANDSHAKE_ACCEPT_KEY_LEN == 28

IsLittleEndian == TRUE

\* A variant that hashes the key alone, without the magic GUID.
HashKeyWithoutGuid(key, hashed_len) ==
    LET keyed == Sha1HashBytes(sha1_init(IsLittleEndian), key, 1, Len(key))
        Result(encoded) == [rc |-> encoded.rc, hashed |-> encoded.out]
    IN  Result(base64_encode(sha1_result(keyed), hashed_len))

nn_ws_handshake_hash_key(key, hashed_len) ==
    LET keyed == Sha1HashBytes(sha1_init(IsLittleEndian), key, 1, Len(key))
        hash == Sha1HashBytes(keyed, NN_WS_HANDSHAKE_MAGIC_GUID, 1,
                              Len(NN_WS_HANDSHAKE_MAGIC_GUID))
        Result(encoded) == [rc |-> encoded.rc, hashed |-> encoded.out]
    IN  Result(base64_encode(sha1_result(hash), hashed_len))

(***************************************************************************)
(* The handshake instance and what a step of it asks of its collaborators. *)
(* A step returns the instance as it leaves it and the calls it made, in   *)
(* order: timer start and stop, socket receive and send, the ownership     *)
(* swap, the events raised to the parent, and a failed assertion.          *)
(***************************************************************************)
NN_WS_CLIENT == "CLIENT"
NN_WS_SERVER == "SERVER"

NN_WS_HANDSHAKE_OK == "OK"
NN_WS_HANDSHAKE_ERROR == "ERROR"
NN_WS_HANDSHAKE_STOPPED == "STOPPED"

FxTimerStart == [op |-> "timer_start"]
FxTimerStop == [op |-> "timer_stop"]
FxRecv(buf, pos, len) == [op |-> "recv", buf |-> buf, pos |-> pos, len |-> len]
FxSend(bytes) == [op |-> "send", bytes |-> bytes]
FxSwapOwner(to) == [op |-> "swap_owner", to |-> to]
FxRaise(type) == [op |-> "raise", type |-> type]
FxAbort(what) == [op |-> "abort", what |-> what]

Step(self, fx) == [self |-> self, fx |-> fx]

\* nn_assert, nn_fsm_bad_state, nn_fsm_bad_source, nn_fsm_bad_action: the
\* process ends where it stands.
Abort(self, what) == Step(self, <<FxAbort(what)>>)

Min(a, b) == IF a < b THEN a ELSE b

\* The buffer of the instance that a slice points into.
SliceBuf(self, slice) ==
    IF slice.buf = "response" THEN self.response ELSE self.opening_hs

\* The len bytes a slice refers to.
SliceBytes(self, slice) ==
    SubSeq(SliceBuf(self, slice), slice.addr, slice.addr + slice.len - 1)

\* strncpy (dst, slice, len); dst [len] = '\0': the bytes of the slice up to
\* a NUL among them, as the string dst then holds.
strncpy(self, slice) ==
    IF slice.addr = 0 \/ slice.len = 0 THEN <<>>
    ELSE LET buf == SliceBuf(self, slice)
             e == StrEnd(buf, slice.addr)
         IN  SubSeq(buf, slice.addr, Min(e - 1, slice.addr + slice.len - 1))

\* sprintf (buf, ...) of text into a zeroed buffer of the given size; the
\* text and its NUL have to fit.
SprintfFits(size, text) == Len(text) + 1 <= size

\* What reading a slice that nothing has initialised may do.
UninitReads == { "crash", "zero" }

\* The descriptive status line of a failure response code.
ResponseCodeText(response_code) ==
    \* 400 Opening Handshake Too Long
    CASE response_code = "TOO_BIG" -> <<52,48,48,32,79,112,101,110,105,110,
        103,32,72,97,110,100,115,104,97,107,101,32,84,111,111,32,76,111,110,
        103>>
      \* 400 Cannot Have Body
      [] response_code = "WSPROTO" -> <<52,48,48,32,67,97,110,110,111,116,32,
          72,97,118,101,32,66,111,100,121>>
      \* 400 Unsupported WebSocket Version
      [] response_code = "WSVERSION" -> <<52,48,48,32,85,110,115,117,112,112,
          111,114,116,101,100,32,87,101,98,83,111,99,107,101,116,32,86,101,
          114,115,105,111,110>>
      \* 400 Missing nanomsg Required Headers
      [] response_code = "NNPROTO" -> <<52,48,48,32,77,105,115,115,105,110,
          103,32,110,97,110,111,109,115,103,32,82,101,113,117,105,114,101,100,
          32,72,101,97,100,101,114,115>>
      \* 400 Incompatible Socket Type
      [] response_code = "NOTPEER" -> <<52,48,48,32,73,110,99,111,109,112,97,
          116,105,98,108,101,32,83,111,99,107,101,116,32,84,121,112,101>>
      \* 400 Unrecognized Socket Type
      [] response_code = "UNKNOWNTYPE" -> <<52,48,48,32,85,110,114,101,99,111,
          103,110,105,122,101,100,32,83,111,99,107,101,116,32,84,121,112,101>>
      [] OTHER -> <<>>

\* The keys whose accept key is worked out once and kept; any other key
\* is hashed where it is met.
KnownKeys == { PeerKeyValue, PeerKeyDigitsValue }

KnownAcceptKeys ==
    [key \in KnownKeys |->
        nn_ws_handshake_hash_key(key, NN_WS_HANDSHAKE_ACCEPT_KEY_LEN + 1)]

HashKey(key) ==
    IF key \in KnownKeys THEN KnownAcceptKeys[key]
    ELSE nn_ws_handshake_hash_key(key, NN_WS_HANDSHAKE_ACCEPT_KEY_LEN + 1)

\* The 101 reply for the key and protocol slices of the request.
Reply101(self) ==
    LET Text(accept, protocol) ==
            [accept_rc |-> accept.rc,
             text |-> Fmt101Head \o accept.hashed \o Fmt101Mid \o protocol
                          \o NN_WS_HANDSHAKE_TERMSEQ]
    IN  Text(HashKey(SliceBytes(self, self.sl.key)),
             strncpy(self, self.sl.protocol))

\* The 400 reply for a response code and the version string copied.
Reply400(response_code, version) ==
    \* HTTP/1.1 
    \* \r\nSec-WebSocket-Version: 
    <<72,84,84,80,47,49,46,49,32>> \o ResponseCodeText(response_code) \o <<13,
        10,83,101,99,45,87,101,98,83,111,99,107,101,116,45,86,101,114,115,105,
        111,110,58,32>> \o version
        \o NN_WS_HANDSHAKE_CRLF

\* Sends the text as the reply: it is written to the zeroed response buffer
\* and the string there is handed to the socket.
SendReply(self, text) ==
    IF ~SprintfFits(ResponseSize, text)
    THEN Abort(self, "server_reply: sprintf past the end of response")
    ELSE Step([self EXCEPT !.response = PutAt(ZeroBuf(ResponseSize), 1, text)],
              <<FxSend(text)>>)

nn_ws_handshake_server_reply(self, uninit_read) ==
    LET zeroed == [self EXCEPT !.response = ZeroBuf(ResponseSize)]
        Accepted(reply) ==
            IF reply.accept_rc # NN_WS_HANDSHAKE_ACCEPT_KEY_LEN
            THEN Abort(zeroed, "server_reply: strlen (accept_key)")
            ELSE SendReply(zeroed, reply.text)
    IN  IF self.response_code = "OK" THEN Accepted(Reply101(zeroed))
        ELSE IF ResponseCodeText(self.response_code) = <<>>
        THEN Abort(zeroed, "server_reply: unexpected response code")
        ELSE IF self.sl.version = UninitSlice
        THEN IF uninit_read = "crash"
             THEN Abort(zeroed, "server_reply: version slice uninitialised")
             ELSE SendReply(zeroed, Reply400(self.response_code, <<>>))
        ELSE SendReply(zeroed,
                 Reply400(self.response_code, strncpy(zeroed, self.sl.version)))

\* The websocket name of a socket type, <<>> when the map has none.
WsSpOf(sp) ==
    IF \E i \in 1..NN_WS_HANDSHAKE_SP_MAP_LEN : NN_WS_HANDSHAKE_SP_MAP[i].sp = sp
    THEN NN_WS_HANDSHAKE_SP_MAP[
             CHOOSE i \in 1..NN_WS_HANDSHAKE_SP_MAP_LEN :
                 NN_WS_HANDSHAKE_SP_MAP[i].sp = sp].ws_sp
    ELSE <<>>

\* A variant that writes the request without its protocol header.
RequestTextWithoutProtocol(resource, host, encoded_key, ws_sp) ==
    \* GET 
    <<71,69,84,32>>
    \o resource \o
    \*  HTTP/1.1\r\nHost: 
    <<32,72,84,84,80,47,49,46,49,13,10,72,111,115,116,58,32>>
    \o host \o
    \* \r\nUpgrade: websocket\r\nConnection: Upgrade\r\nSec-WebSocket-Key: 
    <<13,10,85,112,103,114,97,100,101,58,32,119,101,98,115,111,99,107,101,116,
        13,10,67,111,110,110,101,99,116,105,111,110,58,32,85,112,103,114,97,
        100,101,13,10,83,101,99,45,87,101,98,83,111,99,107,101,116,45,75,101,
        121,58,32>>
    \o encoded_key \o
    \* \r\nSec-WebSocket-Version: 13
    <<13,10,83,101,99,45,87,101,98,83,111,99,107,101,116,45,86,101,114,115,
        105,111,110,58,32,49,51>>
    \o NN_WS_HANDSHAKE_TERMSEQ

\* The opening request for a resource, a host, an encoded key and a protocol.
RequestText(resource, host, encoded_key, ws_sp) ==
    \* GET 
    <<71,69,84,32>>
    \o resource \o
    \*  HTTP/1.1\r\nHost: 
    <<32,72,84,84,80,47,49,46,49,13,10,72,111,115,116,58,32>>
    \o host \o
    \* \r\nUpgrade: websocket\r\nConnection: Upgrade\r\nSec-WebSocket-Key: 
    <<13,10,85,112,103,114,97,100,101,58,32,119,101,98,115,111,99,107,101,116,
        13,10,67,111,110,110,101,99,116,105,111,110,58,32,85,112,103,114,97,
        100,101,13,10,83,101,99,45,87,101,98,83,111,99,107,101,116,45,75,101,
        121,58,32>>
    \o encoded_key \o
    \* \r\nSec-WebSocket-Version: 13\r\nSec-WebSocket-Protocol: 
    <<13,10,83,101,99,45,87,101,98,83,111,99,107,101,116,45,86,101,114,115,
        105,111,110,58,32,49,51,13,10,83,101,99,45,87,101,98,83,111,99,107,
        101,116,45,80,114,111,116,111,99,111,108,58,32>>
    \o ws_sp \o NN_WS_HANDSHAKE_TERMSEQ

\* The random keys nn_random_generate yields.
RandKeys == { RandKeyNonce, RandKeyDigits }

\* The encoded form of each random key and the accept key expected for
\* it, worked out once.
EncodedKeys == [rand_key \in RandKeys |-> base64_encode(rand_key, 24 + 1)]

ExpectedAcceptKeys ==
    [rand_key \in RandKeys |->
        nn_ws_handshake_hash_key(EncodedKeys[rand_key].out,
            NN_WS_HANDSHAKE_ACCEPT_KEY_LEN + 1)]

nn_ws_handshake_client_request(self, rand_key) ==
    LET Sent(keyed, text) ==
            IF ~SprintfFits(OpeningHsSize, text)
            THEN Abort(keyed,
                       "client_request: sprintf past the end of opening_hs")
            ELSE Step([keyed EXCEPT !.opening_hs =
                           PutAt(self.opening_hs, 1, text \o <<NUL>>)],
                      <<FxSend(text)>>)
        Requested(keyed, encoded_key, ws_sp) ==
            IF ws_sp = <<>>
            THEN Abort(keyed, "client_request: socket type not in the map")
            ELSE Sent(keyed, RequestText(self.resource, self.remote_host,
                                         encoded_key, ws_sp))
        Hashed(keyed, encoded_key, rc) ==
            IF rc # NN_WS_HANDSHAKE_ACCEPT_KEY_LEN
            THEN Abort(keyed, "client_request: accept key length")
            ELSE Requested(keyed, encoded_key, WsSpOf(self.pipebase))
        Expected(encoded_key, expected) ==
            Hashed([self EXCEPT !.expected_accept_key = expected.hashed],
                   encoded_key, expected.rc)
        Encoded(encoded) ==
            IF encoded.rc # 24
            THEN Abort(self, "client_request: encoded_key_len")
            ELSE Expected(encoded.out, ExpectedAcceptKeys[rand_key])
    IN  Encoded(EncodedKeys[rand_key])

(***************************************************************************)
(* Entering and leaving the state machine.                                 *)
(***************************************************************************)
\* The instance after nn_ws_handshake_init.  The fields the constructor
\* leaves alone hold nothing yet; start writes the buffers, the positions
\* and the mode before anything reads them, the slices, the response code
\* and the expected accept key it does not write.
InitSelf ==
    [state |-> "IDLE", mode |-> "none", usock |-> "NULL",
     usock_owner |-> "NULL", pipebase |-> "NULL",
     resource |-> <<>>, remote_host |-> <<>>,
     opening_hs |-> ZeroBuf(OpeningHsSize), response |-> ZeroBuf(ResponseSize),
     recv_pos |-> 0, recv_len |-> 0, retries |-> 0,
     sl |-> UninitSlices, response_code |-> "UNINIT",
     expected_accept_key |-> <<>>]

\* The fields nn_ws_handshake_start sets before it launches the machine;
\* owner is the owner the socket had until now.
StartFields(self, owner, pipebase, mode, resource, host) ==
    [self EXCEPT !.usock_owner = owner, !.usock = "usock",
                 !.pipebase = pipebase, !.mode = mode,
                 !.resource = resource, !.remote_host = host,
                 !.opening_hs = ZeroBuf(OpeningHsSize),
                 !.response = ZeroBuf(ResponseSize),
                 !.recv_pos = 0, !.retries = 0,
                 !.recv_len = IF mode = NN_WS_SERVER THEN Len(ServerTemplate)
                              ELSE Len(ClientTemplate)]

\* The step of a call made after the effects fx.
After(fx, step) == Step(step.self, fx \o step.fx)

\* IDLE, NN_FSM_START: arm the timer; the client sends its request, the
\* server posts its first receive.
IdleStart(self, rand_key) ==
    IF self.recv_pos # 0 THEN Abort(self, "handler: recv_pos == 0")
    ELSE IF self.recv_len < Len(NN_WS_HANDSHAKE_TERMSEQ)
    THEN Abort(self, "handler: recv_len >= TERMSEQ_LEN")
    ELSE IF self.mode = NN_WS_CLIENT
    THEN IF self.recv_len > ResponseSize
         THEN Abort(self, "handler: recv_len <= sizeof (response)")
         ELSE After(<<FxTimerStart>>,
                    nn_ws_handshake_client_request(
                        [self EXCEPT !.state = "CLIENT_SEND"], rand_key))
    ELSE IF self.mode = NN_WS_SERVER
    THEN IF self.recv_len > OpeningHsSize
         THEN Abort(self, "handler: recv_len <= sizeof (opening_hs)")
         ELSE Step([self EXCEPT !.state = "SERVER_RECV"],
                   <<FxTimerStart, FxRecv("opening_hs", 0, self.recv_len)>>)
    ELSE Abort(self, "handler: unexpected mode")

nn_ws_handshake_start(self, owner, pipebase, mode, resource, host, rand_key) ==
    IF mode = NN_WS_CLIENT /\ Len(resource) < 1
    THEN Abort(self, "start: strlen (resource) >= 1")
    ELSE IF ~(self.usock = "NULL" /\ self.usock_owner = "NULL")
    THEN Abort(self, "start: usock == NULL && usock_owner.fsm == NULL")
    ELSE IF mode \notin {NN_WS_SERVER, NN_WS_CLIENT}
    THEN Abort(self, "start: unexpected mode")
    ELSE After(<<FxSwapOwner("handshake")>>,
               IdleStart(
                   StartFields(self, owner, pipebase, mode, resource, host),
                   rand_key))

\* A variant that hands the socket back and raises the done event without
\* entering DONE.
LeaveWithoutDone(self, rc) ==
    Step([self EXCEPT !.usock = "NULL", !.usock_owner = "NULL"],
         <<FxSwapOwner(self.usock_owner), FxRaise(rc)>>)

nn_ws_handshake_leave(self, rc) ==
    Step([self EXCEPT !.usock = "NULL", !.usock_owner = "NULL",
                      !.state = "DONE"],
         <<FxSwapOwner(self.usock_owner), FxRaise(rc)>>)

(***************************************************************************)
(* The handler, state by state.                                            *)
(***************************************************************************)
NN_FSM_ACTION == "ACTION"
NN_WS_HANDSHAKE_SRC_USOCK == "USOCK"
NN_WS_HANDSHAKE_SRC_TIMER == "TIMER"

\* A variant that leaves at once, without stopping the timer.
LeaveWithoutStoppingTimer(self) ==
    nn_ws_handshake_leave(self, NN_WS_HANDSHAKE_ERROR)

\* nn_timer_stop; state = STOPPING_TIMER_ERROR
StopTimerError(self) ==
    Step([self EXCEPT !.state = "STOPPING_TIMER_ERROR"], <<FxTimerStop>>)

\* nn_timer_stop; state = STOPPING_TIMER_DONE
StopTimerDone(self) ==
    Step([self EXCEPT !.state = "STOPPING_TIMER_DONE"], <<FxTimerStop>>)

BadAction(self) == Abort(self, "nn_fsm_bad_action")
BadSource(self) == Abort(self, "nn_fsm_bad_source")
BadState(self) == Abort(self, "nn_fsm_bad_state")

\* A variant of the back-tracking loop that finds no part of the
\* termination sequence at the end of the bytes received.
BackTrackNone(buf, recv_pos) == 0

\* The i at which the back-tracking loop stops: the longest prefix of the
\* termination sequence, at most all of it, that the received bytes end in.
BackTrack(buf, recv_pos) ==
    LET Ends(i) == MemEq(NN_WS_HANDSHAKE_TERMSEQ, buf, recv_pos - i + 1, i)
    IN  CHOOSE i \in 0..Len(NN_WS_HANDSHAKE_TERMSEQ) :
            Ends(i) /\ \A j \in (i + 1)..Len(NN_WS_HANDSHAKE_TERMSEQ) : ~Ends(j)

\* A variant of the receive loop of the server without the overflow check.
ServerRecvMoreUnchecked(self, uninit_read) ==
    LET recv_pos == self.recv_pos + self.recv_len
        i == BackTrack(self.opening_hs, recv_pos)
        recv_len == Len(NN_WS_HANDSHAKE_TERMSEQ) - i
    IN  Step([self EXCEPT !.recv_pos = recv_pos, !.recv_len = recv_len,
                          !.retries = self.retries + 1],
             <<FxRecv("opening_hs", recv_pos, recv_len)>>)

\* SERVER_RECV, RECV_MORE: advance, back-track, and receive the rest of a
\* termination sequence or reply that the handshake is too long.
ServerRecvMore(self, uninit_read) ==
    LET recv_pos == self.recv_pos + self.recv_len
        i == BackTrack(self.opening_hs, recv_pos)
        recv_len == Len(NN_WS_HANDSHAKE_TERMSEQ) - i
        moved == [self EXCEPT !.recv_pos = recv_pos]
        next == [moved EXCEPT !.recv_len = recv_len]
    IN  IF ~(recv_pos < OpeningHsSize)
        THEN Abort(moved, "handler: recv_pos < sizeof (opening_hs)")
        ELSE IF ~(recv_pos >= Len(NN_WS_HANDSHAKE_TERMSEQ))
        THEN Abort(moved, "handler: recv_pos >= TERMSEQ_LEN")
        ELSE IF ~(i < Len(NN_WS_HANDSHAKE_TERMSEQ))
        THEN Abort(moved, "handler: i < TERMSEQ_LEN")
        ELSE IF recv_len + recv_pos > OpeningHsSize
        THEN nn_ws_handshake_server_reply(
                 [next EXCEPT !.response_code = "TOO_BIG",
                              !.state = "SERVER_REPLY"], uninit_read)
        ELSE Step([next EXCEPT !.retries = self.retries + 1],
                  <<FxRecv("opening_hs", recv_pos, recv_len)>>)

\* A variant that replies whatever the outcome of the parse, when the
\* parser asks for more bytes as well.
ServerParsedReplyingEarly(self, parsed, uninit_read) ==
    LET after == [self EXCEPT !.sl = parsed.sl,
                              !.response_code = parsed.response_code]
    IN  IF parsed.rc = "ABORT" THEN Abort(self, parsed.abort)
        ELSE nn_ws_handshake_server_reply(
                 [after EXCEPT !.state = "SERVER_REPLY"], uninit_read)

\* SERVER_RECV, NN_USOCK_RECEIVED: what the handler does with the outcome
\* of the parse of the opening handshake.
ServerParsed(self, parsed, uninit_read) ==
    LET after == [self EXCEPT !.sl = parsed.sl,
                              !.response_code = parsed.response_code]
    IN  CASE parsed.rc = "ABORT" -> Abort(self, parsed.abort)
          [] parsed.rc \in {"INVALID", "VALID"} ->
               nn_ws_handshake_server_reply(
                   [after EXCEPT !.state = "SERVER_REPLY"], uninit_read)
          [] parsed.rc = "RECV_MORE" -> ServerRecvMore(after, uninit_read)

\* A variant of SERVER_RECV that answers the timeout with a reply that the
\* handshake is too long.
ServerRecvReplyingOnTimeout(self, src, type, uninit_read) ==
    IF src = NN_WS_HANDSHAKE_SRC_USOCK
    THEN IF type = "RECEIVED"
         THEN ServerParsed(self,
                  nn_ws_handshake_parse_client_opening(
                      self.opening_hs, self.sl, self.response_code,
                      self.pipebase),
                  uninit_read)
         ELSE IF type = "SHUTDOWN" THEN Step(self, <<>>)
         ELSE IF type = "ERROR" THEN StopTimerError(self)
         ELSE BadAction(self)
    ELSE IF src = NN_WS_HANDSHAKE_SRC_TIMER
    THEN IF type = "TIMEOUT"
         THEN After(<<FxSend(Reply400("TOO_BIG", <<>>))>>, StopTimerError(self))
         ELSE BadAction(self)
    ELSE BadSource(self)

ServerRecv(self, src, type, uninit_read) ==
    IF src = NN_WS_HANDSHAKE_SRC_USOCK
    THEN IF type = "RECEIVED"
         THEN ServerParsed(self,
                  nn_ws_handshake_parse_client_opening(
                      self.opening_hs, self.sl, self.response_code,
                      self.pipebase),
                  uninit_read)
         ELSE IF type = "SHUTDOWN" THEN Step(self, <<>>)
         ELSE IF type = "ERROR" THEN StopTimerError(self)
         ELSE BadAction(self)
    ELSE IF src = NN_WS_HANDSHAKE_SRC_TIMER
    THEN IF type = "TIMEOUT" THEN StopTimerError(self) ELSE BadAction(self)
    ELSE BadSource(self)

\* A variant of SERVER_REPLY that ignores the error of the socket as it
\* ignores its shutdown.
ServerReplyIgnoringError(self, src, type) ==
    IF src = NN_WS_HANDSHAKE_SRC_USOCK
    THEN IF type = "SENT" THEN StopTimerDone(self)
         ELSE IF type \in {"SHUTDOWN", "ERROR"} THEN Step(self, <<>>)
         ELSE BadAction(self)
    ELSE IF src = NN_WS_HANDSHAKE_SRC_TIMER
    THEN IF type = "TIMEOUT" THEN StopTimerError(self) ELSE BadAction(self)
    ELSE BadSource(self)

ServerReply(self, src, type) ==
    IF src = NN_WS_HANDSHAKE_SRC_USOCK
    THEN IF type = "SENT" THEN StopTimerDone(self)
         ELSE IF type = "SHUTDOWN" THEN Step(self, <<>>)
         ELSE IF type = "ERROR" THEN StopTimerError(self)
         ELSE BadAction(self)
    ELSE IF src = NN_WS_HANDSHAKE_SRC_TIMER
    THEN IF type = "TIMEOUT" THEN StopTimerError(self) ELSE BadAction(self)
    ELSE BadSource(self)

\* A variant of CLIENT_SEND that sends the request once more before it
\* receives.
ClientSendTwice(self, src, type) ==
    IF src = NN_WS_HANDSHAKE_SRC_USOCK
    THEN IF type = "SENT"
         THEN Step([self EXCEPT !.state = "CLIENT_RECV"],
                   <<FxSend(CStr(self.opening_hs, 1)),
                     FxRecv("response", 0, self.recv_len)>>)
         ELSE IF type = "SHUTDOWN" THEN Step(self, <<>>)
         ELSE IF type = "ERROR" THEN StopTimerError(self)
         ELSE BadAction(self)
    ELSE IF src = NN_WS_HANDSHAKE_SRC_TIMER
    THEN IF type = "TIMEOUT" THEN StopTimerError(self) ELSE BadAction(self)
    ELSE BadSource(self)

ClientSend(self, src, type) ==
    IF src = NN_WS_HANDSHAKE_SRC_USOCK
    THEN IF type = "SENT"
         THEN Step([self EXCEPT !.state = "CLIENT_RECV"],
                   <<FxRecv("response", 0, self.recv_len)>>)
         ELSE IF type = "SHUTDOWN" THEN Step(self, <<>>)
         ELSE IF type = "ERROR" THEN StopTimerError(self)
         ELSE BadAction(self)
    ELSE IF src = NN_WS_HANDSHAKE_SRC_TIMER
    THEN IF type = "TIMEOUT" THEN StopTimerError(self) ELSE BadAction(self)
    ELSE BadSource(self)

\* CLIENT_RECV, RECV_MORE: advance, back-track, and receive the rest of a
\* termination sequence or give the connection up.
ClientRecvMore(self) ==
    LET recv_pos == self.recv_pos + self.recv_len
        i == BackTrack(self.response, recv_pos)
        recv_len == Len(NN_WS_HANDSHAKE_TERMSEQ) - i
        moved == [self EXCEPT !.recv_pos = recv_pos]
        next == [moved EXCEPT !.recv_len = recv_len]
    IN  IF ~(recv_pos < ResponseSize)
        THEN Abort(moved, "handler: recv_pos < sizeof (response)")
        ELSE IF ~(recv_pos >= Len(NN_WS_HANDSHAKE_TERMSEQ))
        THEN Abort(moved, "handler: recv_pos >= TERMSEQ_LEN")
        ELSE IF ~(i < Len(NN_WS_HANDSHAKE_TERMSEQ))
        THEN Abort(moved, "handler: i < TERMSEQ_LEN")
        ELSE IF recv_len + recv_pos > ResponseSize
        THEN StopTimerError(next)
        ELSE Step([next EXCEPT !.retries = self.retries + 1],
                  <<FxRecv("response", recv_pos, recv_len)>>)

\* CLIENT_RECV, NN_USOCK_RECEIVED: what the handler does with the outcome
\* of the parse of the response.
ClientParsed(self, parsed) ==
    LET after == [self EXCEPT !.sl = parsed.sl]
    IN  CASE parsed.rc = "ABORT" -> Abort(self, parsed.abort)
          [] parsed.rc = "INVALID" -> StopTimerError(after)
          [] parsed.rc = "VALID" -> StopTimerDone(after)
          [] parsed.rc = "RECV_MORE" -> ClientRecvMore(after)

\* A variant of CLIENT_RECV that takes the advisory shutdown of the socket
\* for its error.
ClientRecvStoppingOnShutdown(self, src, type) ==
    IF src = NN_WS_HANDSHAKE_SRC_USOCK
    THEN IF type = "RECEIVED"
         THEN ClientParsed(self,
                  nn_ws_handshake_parse_server_response(
                      self.response, self.sl, self.expected_accept_key))
         ELSE IF type = "SHUTDOWN" THEN StopTimerError(self)
         ELSE IF type = "ERROR" THEN StopTimerError(self)
         ELSE BadAction(self)
    ELSE IF src = NN_WS_HANDSHAKE_SRC_TIMER
    THEN IF type = "TIMEOUT" THEN StopTimerError(self) ELSE BadAction(self)
    ELSE BadSource(self)

ClientRecv(self, src, type) ==
    IF src = NN_WS_HANDSHAKE_SRC_USOCK
    THEN IF type = "RECEIVED"
         THEN ClientParsed(self,
                  nn_ws_handshake_parse_server_response(
                      self.response, self.sl, self.expected_accept_key))
         ELSE IF type = "SHUTDOWN" THEN Step(self, <<>>)
         ELSE IF type = "ERROR" THEN StopTimerError(self)
         ELSE BadAction(self)
    ELSE IF src = NN_WS_HANDSHAKE_SRC_TIMER
    THEN IF type = "TIMEOUT" THEN StopTimerError(self) ELSE BadAction(self)
    ELSE BadSource(self)

HandshakeSent(self, src, type) ==
    IF src = NN_WS_HANDSHAKE_SRC_USOCK
    THEN IF type = "SENT" THEN StopTimerDone(self)
         ELSE IF type = "SHUTDOWN" THEN Step(self, <<>>)
         ELSE IF type = "ERROR" THEN StopTimerError(self)
         ELSE BadAction(self)
    ELSE IF src = NN_WS_HANDSHAKE_SRC_TIMER
    THEN IF type = "TIMEOUT" THEN StopTimerError(self) ELSE BadAction(self)
    ELSE BadSource(self)

StoppingTimerError(self, src, type) ==
    IF src = NN_WS_HANDSHAKE_SRC_USOCK THEN Step(self, <<>>)
    ELSE IF src = NN_WS_HANDSHAKE_SRC_TIMER
    THEN IF type = "STOPPED"
         THEN nn_ws_handshake_leave(self, NN_WS_HANDSHAKE_ERROR)
         ELSE BadAction(self)
    ELSE BadSource(self)

StoppingTimerDone(self, src, type) ==
    IF src = NN_WS_HANDSHAKE_SRC_USOCK THEN Step(self, <<>>)
    ELSE IF src = NN_WS_HANDSHAKE_SRC_TIMER
    THEN IF type = "STOPPED"
         THEN nn_ws_handshake_leave(self, NN_WS_HANDSHAKE_OK)
         ELSE BadAction(self)
    ELSE BadSource(self)

\* The events that reach the handler after the start: IDLE takes none of
\* them (the start itself is IdleStart), DONE takes none at all.
nn_ws_handshake_handler(self, src, type, uninit_read) ==
    CASE self.state = "IDLE" ->
             IF src = NN_FSM_ACTION THEN BadAction(self) ELSE BadSource(self)
      [] self.state = "SERVER_RECV" -> ServerRecv(self, src, type, uninit_read)
      [] self.state = "SERVER_REPLY" -> ServerReply(self, src, type)
      [] self.state = "CLIENT_SEND" -> ClientSend(self, src, type)
      [] self.state = "CLIENT_RECV" -> ClientRecv(self, src, type)
      [] self.state = "HANDSHAKE_SENT" -> HandshakeSent(self, src, type)
      [] self.state = "STOPPING_TIMER_ERROR" ->
             StoppingTimerError(self, src, type)
      [] self.state = "STOPPING_TIMER_DONE" ->
             StoppingTimerDone(self, src, type)
      [] self.state = "DONE" -> BadSource(self)
      [] OTHER -> BadState(self)

\* A variant of the shutdown function that reports ERROR where it is to
\* report STOPPED.
ShutdownReportingError(self, src, type, timer) ==
    LET stop == src = NN_FSM_ACTION /\ type = "STOP"
        asked == IF stop THEN [self EXCEPT !.state = "STOPPING"] ELSE self
        fx == IF stop THEN <<FxTimerStop>> ELSE <<>>
    IN  IF timer # "idle" THEN Step(asked, fx)
        ELSE Step([asked EXCEPT !.state = "IDLE"],
                  fx \o <<FxRaise(NN_WS_HANDSHAKE_ERROR)>>)

\* A variant of the shutdown function that reports STOPPED without waiting
\* for the timer to be idle.
ShutdownWithoutWaiting(self, src, type, timer) ==
    LET stop == src = NN_FSM_ACTION /\ type = "STOP"
        fx == IF stop THEN <<FxTimerStop>> ELSE <<>>
    IN  Step([self EXCEPT !.state = "IDLE"],
             fx \o <<FxRaise(NN_WS_HANDSHAKE_STOPPED)>>)

\* The shutdown function; timer is the state of the timer as the call
\* finds it.
nn_ws_handshake_shutdown(self, src, type, timer) ==
    LET stop == src = NN_FSM_ACTION /\ type = "STOP"
        asked == IF stop THEN [self EXCEPT !.state = "STOPPING"] ELSE self
        fx == IF stop THEN <<FxTimerStop>> ELSE <<>>
        timer_isidle == timer = "idle"
    IN  IF asked.state = "STOPPING"
        THEN IF ~timer_isidle THEN Step(asked, fx)
             ELSE Step([asked EXCEPT !.state = "IDLE"],
                       fx \o <<FxRaise(NN_WS_HANDSHAKE_STOPPED)>>)
        ELSE BadState(asked)

(***************************************************************************)
(* The peer: the byte streams the other end of the connection sends.  A    *)
(* scripted peer sends its bytes and falls silent; an endless peer pads    *)
(* its bytes with the letter x up to JunkTail bytes before the end of the  *)
(* receiving buffer and goes on with bytes of its choice among x, CR, LF.  *)
(***************************************************************************)
\* GET /chat HTTP/1.1\r\n
PeerGet ==
    <<71,69,84,32,47,99,104,97,116,32,72,84,84,80,47,49,46,49,13,10>>

\* PUT /chat HTTP/1.1\r\n
PeerPut ==
    <<80,85,84,32,47,99,104,97,116,32,72,84,84,80,47,49,46,49,13,10>>

\* PUT x HTTP/1.1\r\n
PeerPutShort ==
    <<80,85,84,32,120,32,72,84,84,80,47,49,46,49,13,10>>

\* GET x HTTP/1.1\r\n
PeerGetShort ==
    <<71,69,84,32,120,32,72,84,84,80,47,49,46,49,13,10>>

\* Host: a\r\n
PeerHost ==
    <<72,111,115,116,58,32,97,13,10>>

\* Upgrade: websocket\r\n
PeerUpgrade ==
    <<85,112,103,114,97,100,101,58,32,119,101,98,115,111,99,107,101,116,13,10>>

\* Connection: Upgrade\r\n
PeerConnection ==
    <<67,111,110,110,101,99,116,105,111,110,58,32,85,112,103,114,97,100,101,
      13,10>>

\* Sec-WebSocket-Key: dGhlIHNhbXBsZSBub25jZQ==\r\n
PeerKey ==
    <<83,101,99,45,87,101,98,83,111,99,107,101,116,45,75,101,121,58,32,100,71,
      104,108,73,72,78,104,98,88,66,115,90,83,66,117,98,50,53,106,90,81,61,61,
      13,10>>

\* Sec-WebSocket-Key: MDEyMzQ1Njc4OWFiY2RlZg==\r\n
PeerKeyDigits ==
    <<83,101,99,45,87,101,98,83,111,99,107,101,116,45,75,101,121,58,32,77,68,
      69,121,77,122,81,49,78,106,99,52,79,87,70,105,89,50,82,108,90,103,61,61,
      13,10>>

\* Sec-WebSocket-Version: 13\r\n
PeerVersion13 ==
    <<83,101,99,45,87,101,98,83,111,99,107,101,116,45,86,101,114,115,105,111,
      110,58,32,49,51,13,10>>

\* Sec-WebSocket-Version: 8\r\n
PeerVersion8 ==
    <<83,101,99,45,87,101,98,83,111,99,107,101,116,45,86,101,114,115,105,111,
      110,58,32,56,13,10>>

\* Sec-WebSocket-Protocol: x-nanomsg-pair\r\n
PeerProtoPair ==
    <<83,101,99,45,87,101,98,83,111,99,107,101,116,45,80,114,111,116,111,99,
      111,108,58,32,120,45,110,97,110,111,109,115,103,45,112,97,105,114,13,10>>

\* Sec-WebSocket-Protocol: x-nanomsg-rep\r\n
PeerProtoRep ==
    <<83,101,99,45,87,101,98,83,111,99,107,101,116,45,80,114,111,116,111,99,
      111,108,58,32,120,45,110,97,110,111,109,115,103,45,114,101,112,13,10>>

\* Sec-WebSocket-Protocol: x-nanomsg-pub\r\n
PeerProtoPub ==
    <<83,101,99,45,87,101,98,83,111,99,107,101,116,45,80,114,111,116,111,99,
      111,108,58,32,120,45,110,97,110,111,109,115,103,45,112,117,98,13,10>>

\* Sec-WebSocket-Protocol: x-other\r\n
PeerProtoOther ==
    <<83,101,99,45,87,101,98,83,111,99,107,101,116,45,80,114,111,116,111,99,
      111,108,58,32,120,45,111,116,104,101,114,13,10>>

\* Origin: x\r\n
PeerOrigin ==
    <<79,114,105,103,105,110,58,32,120,13,10>>

\* HTTP/1.1 101 Switching Protocols\r\n
PeerStatus101 ==
    <<72,84,84,80,47,49,46,49,32,49,48,49,32,83,119,105,116,99,104,105,110,
      103,32,80,114,111,116,111,99,111,108,115,13,10>>

\* HTTP/1.1 404 Not Found\r\n
PeerStatus404 ==
    <<72,84,84,80,47,49,46,49,32,52,48,52,32,78,111,116,32,70,111,117,110,100,
      13,10>>

\* HTTP/1.1 400 Unsupported WebSocket Version\r\n
PeerStatus400 ==
    <<72,84,84,80,47,49,46,49,32,52,48,48,32,85,110,115,117,112,112,111,114,
      116,101,100,32,87,101,98,83,111,99,107,101,116,32,86,101,114,115,105,
      111,110,13,10>>

\* Sec-WebSocket-Accept: s3pPLMBiTxaQ9kYGzzhZRbK+xOo=\r\n
PeerAcceptNonce ==
    <<83,101,99,45,87,101,98,83,111,99,107,101,116,45,65,99,99,101,112,116,58,
      32,115,51,112,80,76,77,66,105,84,120,97,81,57,107,89,71,122,122,104,90,
      82,98,75,43,120,79,111,61,13,10>>

\* Sec-WebSocket-Accept: BACScCJPNqyz+UBoqMH89VmURoA=\r\n
PeerAcceptDigits ==
    <<83,101,99,45,87,101,98,83,111,99,107,101,116,45,65,99,99,101,112,116,58,
      32,66,65,67,83,99,67,74,80,78,113,121,122,43,85,66,111,113,77,72,56,57,
      86,109,85,82,111,65,61,13,10>>


JunkBytes == { 120, CR, LF }

Filler(n) == [i \in 1..n |-> 120]

Scripted(bytes) == [bytes |-> bytes, junk |-> FALSE]

Endless(bytes, size) ==
    [bytes |-> bytes \o Filler(size - JunkTail - Len(bytes)), junk |-> TRUE]

\* A complete opening request with the given request line, key header,
\* version header and last header.
RequestKeyed(line, key, version, last) ==
    line \o PeerHost \o PeerUpgrade \o PeerConnection \o key \o version
        \o last \o NN_WS_HANDSHAKE_CRLF

Request(line, version, last) == RequestKeyed(line, PeerKey, version, last)

\* The same without a Host header.
RequestNoHost ==
    PeerGet \o PeerUpgrade \o PeerConnection \o PeerKey \o PeerVersion13
        \o PeerProtoPair \o NN_WS_HANDSHAKE_CRLF

\* A valid request shorter than the first receive.
RequestShort ==
    PeerGetShort \o PeerHost \o PeerUpgrade \o PeerConnection \o PeerKey
        \o PeerVersion13 \o NN_WS_HANDSHAKE_CRLF

\* A valid request as long as the first receive.
RequestExact ==
    PeerGetShort \o PeerHost \o PeerUpgrade \o PeerConnection \o PeerKey
        \o PeerVersion13 \o PeerOrigin \o NN_WS_HANDSHAKE_CRLF

Requests ==
    { Scripted(Request(PeerGet, PeerVersion13, PeerProtoPair)),
      Scripted(RequestKeyed(PeerGet, PeerKeyDigits, PeerVersion13,
                            PeerProtoRep)),
      Scripted(Request(PeerGet, PeerVersion8, PeerProtoPair)),
      Scripted(Request(PeerGet, PeerVersion13, PeerProtoPub)),
      Scripted(Request(PeerGet, PeerVersion13, PeerProtoOther)),
      Scripted(Request(PeerGet, PeerVersion13, PeerOrigin)),
      Scripted(Request(PeerPut, PeerVersion13, PeerProtoPair)),
      Scripted(RequestNoHost),
      Scripted(RequestExact),
      Endless(<<>>, OpeningHsSize),
      Scripted(PeerPutShort \o NN_WS_HANDSHAKE_CRLF
                   \o Filler(OpeningHsSize)),
      Scripted(RequestShort \o Filler(OpeningHsSize)) }

\* A complete response with the given status line and accept header.
Response(status, accept) ==
    status \o PeerUpgrade \o PeerConnection \o accept \o PeerProtoPair
        \o NN_WS_HANDSHAKE_CRLF

Responses ==
    { Scripted(Response(PeerStatus101, PeerAcceptNonce)),
      Scripted(Response(PeerStatus101, PeerAcceptDigits)),
      Scripted(PeerStatus404 \o NN_WS_HANDSHAKE_CRLF),
      Scripted(PeerStatus400 \o PeerVersion13),
      Endless(<<>>, ResponseSize) }

\* The socket types the parent runs the handshake for.
LocalSps == { "PAIR", "REQ" }

Resource == <<47>>

RemoteHost == <<97>>

(***************************************************************************)
(* The requests the request parser is tried on: complete requests, built   *)
(* of a request line and header lines and brought to the length of a first *)
(* receive and a round by a header the parser skips.                       *)
(***************************************************************************)
\* Upgrade: h2c\r\n
PeerUpgradeOther ==
    <<85,112,103,114,97,100,101,58,32,104,50,99,13,10>>

\* Connection: close\r\n
PeerConnectionOther ==
    <<67,111,110,110,101,99,116,105,111,110,58,32,99,108,111,115,101,13,10>>

\* X-Pad: followed by n letters x and CRLF.
PadLine(n) ==
    <<88,45,80,97,100,58>> \o Filler(n) \o NN_WS_HANDSHAKE_CRLF

RECURSIVE Concat(_)
Concat(lines) ==
    IF lines = <<>> THEN <<>> ELSE Head(lines) \o Concat(Tail(lines))

PaddedLen == Len(ServerTemplate) + Len(NN_WS_HANDSHAKE_TERMSEQ)

Padded(line, lines) ==
    LET Pad(head, short) ==
            head \o (IF short > 0 THEN PadLine(short - Len(PadLine(0)))
                     ELSE <<>>)
                 \o NN_WS_HANDSHAKE_CRLF
        Headed(head) ==
            Pad(head,
                IF Len(head) + Len(NN_WS_HANDSHAKE_CRLF) >= PaddedLen THEN 0
                ELSE IF PaddedLen - Len(head) - Len(NN_WS_HANDSHAKE_CRLF)
                            < Len(PadLine(0))
                THEN Len(PadLine(0))
                ELSE PaddedLen - Len(head) - Len(NN_WS_HANDSHAKE_CRLF))
    IN  Headed(line \o Concat(lines))

\* Requests with or without a Host header, with a good or another value of
\* Upgrade, of Connection and of the version, and with a protocol or none.
OrderRequests ==
    { Padded(PeerGet, host \o <<upgrade, conn, PeerKey, version>> \o proto) :
          host \in { <<>>, <<PeerHost>> },
          upgrade \in { PeerUpgrade, PeerUpgradeOther },
          conn \in { PeerConnection, PeerConnectionOther },
          version \in { PeerVersion13, PeerVersion8 },
          proto \in { <<>>, <<PeerProtoPair>>, <<PeerProtoPub>>,
                      <<PeerProtoOther>> } }

\* The header lines a request must have.
RequiredLines ==
    << PeerHost, PeerUpgrade, PeerConnection, PeerKey, PeerVersion13 >>

\* The orders of the lines of a set: the one-to-one sequences of its members.
Orders(lines) ==
    { f \in [1..Cardinality(lines) -> lines] :
          \A i, j \in 1..Cardinality(lines) : f[i] = f[j] => i = j }

\* Requests without one or more of the required lines, the lines that are
\* present in every order.
MissingRequests ==
    UNION { { Padded(PeerGet, [i \in 1..Cardinality(lines) |->
                                  RequiredLines[f[i]]]) : f \in Orders(lines) } :
                lines \in (SUBSET (1..Len(RequiredLines)))
                              \ { 1..Len(RequiredLines) } }

\* The socket types of the SP map.
AllSps ==
    { NN_WS_HANDSHAKE_SP_MAP[i].sp : i \in 1..NN_WS_HANDSHAKE_SP_MAP_LEN }

\* A token in upper case.
Upper(token) ==
    [k \in 1..Len(token) |->
        IF token[k] \in 97..122 THEN token[k] - 32 ELSE token[k]]

\* The values of the protocol header: the tokens of the SP map in lower
\* and in upper case, a token short of its last letter, a token with a
\* letter more, another name and the empty value.
ProtoValues ==
    { NN_WS_HANDSHAKE_SP_MAP[i].ws_sp : i \in 1..NN_WS_HANDSHAKE_SP_MAP_LEN }
        \cup { Upper(NN_WS_HANDSHAKE_SP_MAP[i].ws_sp) :
                   i \in 1..NN_WS_HANDSHAKE_SP_MAP_LEN }
        \cup { \* x-nanomsg-pai
               <<120,45,110,97,110,111,109,115,103,45,112,97,105>>,
               \* x-nanomsg-pairs
               <<120,45,110,97,110,111,109,115,103,45,112,97,105,114,115>>,
               \* x-other
               <<120,45,111,116,104,101,114>>,
               <<>> }

\* Sec-WebSocket-Protocol: followed by a space, the value and CRLF.
ProtoLine(value) ==
    <<83,101,99,45,87,101,98,83,111,99,107,101,116,45,80,114,111,116,111,99,
      111,108,58,32>> \o value \o NN_WS_HANDSHAKE_CRLF

\* Requests that pass the checks of the WebSocket headers, with one of the
\* values of the protocol header.
ProtoRequests ==
    { Padded(PeerGet, <<PeerHost, PeerUpgrade, PeerConnection, PeerKey,
                        PeerVersion13, ProtoLine(value)>>) :
          value \in ProtoValues }

\* The request that passes those checks and has no protocol header.
NoProtoRequest ==
    Padded(PeerGet, <<PeerHost, PeerUpgrade, PeerConnection, PeerKey,
                      PeerVersion13>>)

\* GET, two spaces and HTTP/1.1\r\n: a request line with an empty
\* request-URI.
PeerGetEmptyUri == <<71,69,84,32,32,72,84,84,80,47,49,46,49,13,10>>

\* The request with that line and the five required headers.
EmptyUriRequest ==
    Padded(PeerGetEmptyUri, <<PeerHost, PeerUpgrade, PeerConnection, PeerKey,
                              PeerVersion13>>)

\* The first bytes, as many as the buffer takes, of a request whose
\* headers go on beyond it: the five required headers and a header that
\* ends with the first receive, a header whose CR is the last byte of a
\* later receive, and the first two letters of one more.
LongRequest ==
    LET Headed(head) ==
            head \o PadLine(OpeningHsSize - Len(head)
                                - Len(NN_WS_HANDSHAKE_CRLF) - Len(PadLine(0)))
                 \* X-
                 \o <<88,45>>
        Required(lines) ==
            Headed(lines \o PadLine(Len(ServerTemplate) - Len(lines)
                                        - Len(PadLine(0))))
    IN  Required(PeerGet \o PeerHost \o PeerUpgrade \o PeerConnection
                     \o PeerKey \o PeerVersion13)

\* The requests and the socket types of the servers that are sent them.
RequestInputs ==
    { [request |-> request, pipebase |-> pipebase] :
          request \in OrderRequests \cup MissingRequests,
          pipebase \in LocalSps }
        \cup { [request |-> request, pipebase |-> pipebase] :
                   request \in ProtoRequests \cup { NoProtoRequest },
                   pipebase \in AllSps }
        \cup { [request |-> request, pipebase |-> pipebase] :
                   request \in { EmptyUriRequest, LongRequest },
                   pipebase \in LocalSps }

\* HTTP/1.0 101 Switching Protocols\r\n
PeerStatusOld ==
    <<72,84,84,80,47,49,46,48,32,49,48,49,32,83,119,105,116,99,104,105,110,
      103,32,80,114,111,116,111,99,111,108,115,13,10>>

\* HTTP/1.1 101\r\n
PeerStatusBare == <<72,84,84,80,47,49,46,49,32,49,48,49,13,10>>

\* Sec-WebSocket-Accept: followed by a space, the value and CRLF.
AcceptLine(value) ==
    <<83,101,99,45,87,101,98,83,111,99,107,101,116,45,65,99,99,101,112,116,58,
      32>> \o value \o NN_WS_HANDSHAKE_CRLF

\* The accept values of the responses: those of the two keys, the first
\* in upper case and the first short of its last character.
AcceptValues ==
    { SubSeq(PeerAcceptNonce, Len(AcceptLine(<<>>)) - 1,
             Len(PeerAcceptNonce) - 2),
      SubSeq(PeerAcceptDigits, Len(AcceptLine(<<>>)) - 1,
             Len(PeerAcceptDigits) - 2),
      Upper(SubSeq(PeerAcceptNonce, Len(AcceptLine(<<>>)) - 1,
                   Len(PeerAcceptNonce) - 2)),
      SubSeq(PeerAcceptNonce, Len(AcceptLine(<<>>)) - 1,
             Len(PeerAcceptNonce) - 3) }

\* The responses the response parser is tried on: a status line, the
\* lines of Upgrade, Connection and Sec-WebSocket-Accept, each of which
\* may be left out, and the empty line.  One response has each of the
\* accept values with the good status line and values; the others differ
\* from the first of these in one or in all of the lines.
ParserResponses ==
    { PeerStatus101 \o PeerUpgrade \o PeerConnection \o AcceptLine(value)
          \o NN_WS_HANDSHAKE_CRLF : value \in AcceptValues }
        \cup { status \o PeerUpgrade \o PeerConnection \o PeerAcceptNonce
                   \o NN_WS_HANDSHAKE_CRLF :
                   status \in { PeerStatus404, PeerStatusOld,
                                PeerStatusBare } }
        \cup { PeerStatus101 \o upgrade \o PeerConnection \o PeerAcceptNonce
                   \o NN_WS_HANDSHAKE_CRLF :
                   upgrade \in { <<>>, PeerUpgradeOther } }
        \cup { PeerStatus101 \o PeerUpgrade \o conn \o PeerAcceptNonce
                   \o NN_WS_HANDSHAKE_CRLF :
                   conn \in { <<>>, PeerConnectionOther } }
        \cup { PeerStatus101 \o PeerUpgrade \o PeerConnection
                   \o NN_WS_HANDSHAKE_CRLF,
               PeerStatus101 \o NN_WS_HANDSHAKE_CRLF,
               PeerStatusOld \o NN_WS_HANDSHAKE_CRLF }

\* What a run of a parser starts from: the mode and the socket type of the
\* instance, the key a client draws, and the bytes the peer sends.
ParserInputs ==
    { [mode |-> NN_WS_SERVER, pipebase |-> input.pipebase,
       rand_key |-> RandKeyNonce, stream |-> input.request] :
          input \in RequestInputs }
        \cup { [mode |-> NN_WS_CLIENT, pipebase |-> "REQ",
                rand_key |-> rand_key, stream |-> response] :
                   rand_key \in RandKeys, response \in ParserResponses }

(***************************************************************************)
(* The state: the instance, its state machine base, its timer, the socket  *)
(* with the operation posted on it, the peer, the events raised to the     *)
(* parent since the start, the assertion that ended the process, and what  *)
(* the timer has been asked and has reported since the start, with the     *)
(* first of Sent, Error, Timeout and Stop that was delivered, whether a    *)
(* send was posted on the socket, and how many were; and the call of a     *)
(* helper function made on its own, with its arguments and its results.    *)
(***************************************************************************)
VARIABLES self, fsm, timer, sock_owner, sock_state, pending, peer, raised,
          abort, hist, call

vars == <<self, fsm, timer, sock_owner, sock_state, pending, peer, raised,
          abort, hist, call>>

NoOp == [op |-> "none"]

NoPeer == [bytes |-> <<>>, junk |-> FALSE]

\* No helper function is called on its own.
NoCall == [fn |-> "none"]

InitHist ==
    [armed |-> FALSE, stop_requested |-> FALSE, stopped_seen |-> FALSE,
     send_posted |-> FALSE, sends |-> 0, first |-> "none"]

Init ==
    /\ self = InitSelf
    /\ fsm = "idle"
    /\ timer = "idle"
    /\ sock_owner = "parent"
    /\ sock_state = "open"
    /\ pending = NoOp
    /\ peer = NoPeer
    /\ raised = <<>>
    /\ abort = "none"
    /\ hist = InitHist
    /\ call = NoCall

HasFx(fx, op) == \E i \in DOMAIN fx : fx[i].op = op

\* The first call of the kind op among the calls of a step.
FxOf(fx, op) ==
    fx[CHOOSE i \in DOMAIN fx :
           fx[i].op = op /\ \A j \in 1..(i - 1) : fx[j].op # op]

\* nn_timer_start on an idle timer arms it; nn_timer_stop on an armed timer
\* asks it to stop and does nothing to any other.
TimerAfter(t, fx) ==
    IF HasFx(fx, "timer_start") THEN "active"
    ELSE IF HasFx(fx, "timer_stop") /\ t = "active" THEN "stopping"
    ELSE t

\* The assertion a step ends at, if any; nn_timer_start asserts an idle
\* timer.
AbortAfter(t, fx) ==
    IF HasFx(fx, "abort") THEN FxOf(fx, "abort").what
    ELSE IF HasFx(fx, "timer_start") /\ t # "idle"
    THEN "nn_timer_start: timer not idle"
    ELSE "none"

\* The owner of the socket after the swaps of a step.
OwnerAfter(o, fx) ==
    IF HasFx(fx, "swap_owner") THEN FxOf(fx, "swap_owner").to ELSE o

PendingAfter(p, fx) ==
    IF HasFx(fx, "recv") THEN FxOf(fx, "recv")
    ELSE IF HasFx(fx, "send") THEN FxOf(fx, "send")
    ELSE p

\* The events a step raises, each with the event it was raised on.
RaisedBy(fx, src, type) ==
    IF HasFx(fx, "raise")
    THEN << [type |-> FxOf(fx, "raise").type, src |-> src, on |-> type] >>
    ELSE <<>>

HistAfter(h, fx, src, type) ==
    [armed |-> h.armed \/ HasFx(fx, "timer_start"),
     stop_requested |-> h.stop_requested \/ HasFx(fx, "timer_stop"),
     stopped_seen |-> h.stopped_seen
                         \/ (src = NN_WS_HANDSHAKE_SRC_TIMER /\ type = "STOPPED"),
     send_posted |-> h.send_posted \/ HasFx(fx, "send"),
     sends |-> h.sends + Cardinality({ i \in DOMAIN fx : fx[i].op = "send" }),
     first |-> IF h.first = "none" /\ type \in {"SENT", "ERROR", "TIMEOUT", "STOP"}
               THEN type ELSE h.first]

\* The collaborators after a step of the instance on the event src, type:
\* t, p and rest are the timer, the posted operation and the peer as the
\* step found them.  A socket handed back to the parent is the parent's
\* business: its operation and its peer are followed no further.
Apply(step, src, type, t, p, rest) ==
    /\ self' = step.self
    /\ timer' = TimerAfter(t, step.fx)
    /\ abort' = AbortAfter(t, step.fx)
    /\ sock_owner' = OwnerAfter(sock_owner, step.fx)
    /\ pending' = IF OwnerAfter(sock_owner, step.fx) = "parent" THEN NoOp
                  ELSE PendingAfter(p, step.fx)
    /\ peer' = IF OwnerAfter(sock_owner, step.fx) = "parent" THEN NoPeer
               ELSE rest
    /\ raised' = raised \o RaisedBy(step.fx, src, type)
    /\ hist' = HistAfter(hist, step.fx, src, type)
    /\ call' = call

\* nn_fsm_feed: a stopping machine hands the event to the shutdown
\* function, any other to the handler; the machine is idle again once it
\* has reported that it stopped.
Feed(me, src, type, t, p, rest, uninit_read) ==
    \E step \in { IF fsm = "stopping"
                   THEN nn_ws_handshake_shutdown(me, src, type, t)
                   ELSE nn_ws_handshake_handler(me, src, type, uninit_read) } :
        /\ Apply(step, src, type, t, p, rest)
        /\ fsm' = IF fsm = "stopping" /\ HasFx(step.fx, "raise")
                  THEN "idle" ELSE fsm

(***************************************************************************)
(* The operations of the parent.                                           *)
(***************************************************************************)
\* nn_ws_handshake_start on an idle instance, with a socket the parent
\* owns and a peer at its other end.  The parent runs an instance in one
\* mode and for one socket type, whenever it starts it.
Start(mode, pipebase, stream, rand_key) ==
    /\ abort = "none"
    /\ fsm = "idle"
    /\ self.mode # "none" => mode = self.mode /\ pipebase = self.pipebase
    /\ stream \in (IF mode = NN_WS_SERVER THEN Requests ELSE Responses)
    /\ \E step \in { nn_ws_handshake_start(self, "parent", pipebase, mode,
                           Resource, RemoteHost, rand_key) } :
           /\ self' = step.self
           /\ timer' = TimerAfter(timer, step.fx)
           /\ abort' = AbortAfter(timer, step.fx)
           /\ pending' = PendingAfter(NoOp, step.fx)
           /\ sock_owner' = IF abort' = "none"
                            THEN OwnerAfter(sock_owner, step.fx)
                            ELSE sock_owner
           /\ hist' = HistAfter(InitHist, step.fx, NN_FSM_ACTION, "START")
           /\ fsm' = IF abort' = "none" THEN "active" ELSE fsm
    /\ sock_state' = "open"
    /\ peer' = stream
    /\ raised' = <<>>
    /\ call' = call

\* nn_ws_handshake_stop: nn_fsm_stop acts on an active machine only.
Stop ==
    /\ abort = "none"
    /\ fsm = "active"
    /\ \E step \in { nn_ws_handshake_shutdown(self, NN_FSM_ACTION, "STOP",
                           timer) } :
           /\ Apply(step, NN_FSM_ACTION, "STOP", timer, pending, peer)
           /\ fsm' = IF HasFx(step.fx, "raise") THEN "idle" ELSE "stopping"
    /\ UNCHANGED sock_state

(***************************************************************************)
(* The events of the socket, delivered to the instance while it owns the   *)
(* socket: the completion of the operation posted, the advisory shutdown   *)
(* and the terminal error.                                                 *)
(***************************************************************************)
SockEvents == abort = "none" /\ sock_owner = "handshake" /\ sock_state = "open"

\* The bytes a receive of n bytes can complete with.
Chunks(n) ==
    IF Len(peer.bytes) >= n THEN { SubSeq(peer.bytes, 1, n) }
    ELSE IF peer.junk
    THEN { peer.bytes \o t : t \in [1..(n - Len(peer.bytes)) -> JunkBytes] }
    ELSE {}

Received(uninit_read) ==
    /\ SockEvents
    /\ pending.op = "recv"
    /\ \E chunk \in Chunks(pending.len) :
          Feed([self EXCEPT ![pending.buf] = PutAt(@, pending.pos + 1, chunk)],
               NN_WS_HANDSHAKE_SRC_USOCK, "RECEIVED", timer, NoOp,
               [peer EXCEPT !.bytes =
                   SubSeq(@, Min(Len(chunk), Len(@)) + 1, Len(@))],
               uninit_read)
    /\ UNCHANGED sock_state

Sent ==
    /\ SockEvents
    /\ pending.op = "send"
    /\ Feed(self, NN_WS_HANDSHAKE_SRC_USOCK, "SENT", timer, NoOp, peer, "zero")
    /\ UNCHANGED sock_state

Shutdown ==
    /\ SockEvents
    /\ Feed(self, NN_WS_HANDSHAKE_SRC_USOCK, "SHUTDOWN", timer, pending, peer,
            "zero")
    /\ UNCHANGED sock_state

Error ==
    /\ SockEvents
    /\ sock_state' = "error"
    /\ Feed(self, NN_WS_HANDSHAKE_SRC_USOCK, "ERROR", timer, NoOp, NoPeer,
            "zero")

(***************************************************************************)
(* The events of the timer: the timeout of an armed timer and the report   *)
(* that a timer asked to stop has stopped.                                 *)
(***************************************************************************)
Timeout ==
    /\ abort = "none"
    /\ timer = "active"
    /\ Feed(self, NN_WS_HANDSHAKE_SRC_TIMER, "TIMEOUT", timer, pending, peer,
            "zero")
    /\ UNCHANGED sock_state

Stopped ==
    /\ abort = "none"
    /\ timer = "stopping"
    /\ Feed(self, NN_WS_HANDSHAKE_SRC_TIMER, "STOPPED", "idle", pending, peer,
            "zero")
    /\ UNCHANGED sock_state

Next ==
    \/ \E mode \in {NN_WS_SERVER, NN_WS_CLIENT}, pipebase \in LocalSps,
          stream \in Requests \cup Responses, rand_key \in RandKeys :
          Start(mode, pipebase, stream, rand_key)
    \/ Stop
    \/ \E uninit_read \in UninitReads : Received(uninit_read)
    \/ Sent
    \/ Shutdown
    \/ Error
    \/ Timeout
    \/ Stopped

Spec == Init /\ [][Next]_vars

\* A timer that was asked to stop reports that it stopped.
FairSpec == Spec /\ WF_vars(Stopped)

\* An armed timer that is not stopped times out as well.
LiveSpec == Spec /\ WF_vars(Timeout) /\ WF_vars(Stopped)

(***************************************************************************)
(* The parsers at work.  A server is started for one of the requests the   *)
(* request parser is tried on, receives it round by round, replies, and    *)
(* publishes its done event once the reply is sent; a client is started    *)
(* for one of the responses the response parser is tried on, sends its     *)
(* request, receives the response round by round, and publishes its done   *)
(* event.                                                                  *)
(***************************************************************************)
\* The instance started for an input of a parser.
StartedFor(input) ==
    \E step \in { nn_ws_handshake_start(InitSelf, "parent",
                       input.pipebase, input.mode, Resource, RemoteHost,
                       input.rand_key) } :
        /\ self = step.self
        /\ fsm = "active"
        /\ timer = TimerAfter("idle", step.fx)
        /\ sock_owner = OwnerAfter("parent", step.fx)
        /\ sock_state = "open"
        /\ pending = PendingAfter(NoOp, step.fx)
        /\ peer = Scripted(input.stream)
        /\ raised = <<>>
        /\ abort = AbortAfter("idle", step.fx)
        /\ hist = HistAfter(InitHist, step.fx, NN_FSM_ACTION, "START")
        /\ call = NoCall

ParserInit == \E input \in ParserInputs : StartedFor(input)

ParserNext ==
    \/ \E uninit_read \in UninitReads : Received(uninit_read)
    \/ Sent
    \/ Stopped

ParserSpec == ParserInit /\ [][ParserNext]_vars

(***************************************************************************)
(* The request parser on the lines of the header block: a server is        *)
(* started for a complete request whose header lines come with good and    *)
(* with bad values, with and without the Host line, a protocol line and an *)
(* Origin line; it receives the request, replies and publishes.            *)
(***************************************************************************)
HeaderRequests ==
    OrderRequests
        \cup { Padded(PeerGet, <<PeerHost, PeerUpgrade, PeerConnection,
                                 PeerKey, PeerVersion13, PeerOrigin>>) }

HeaderInputs ==
    { [mode |-> NN_WS_SERVER, pipebase |-> pipebase,
       rand_key |-> RandKeyNonce, stream |-> request] :
          request \in HeaderRequests, pipebase \in LocalSps }

HeaderInit == \E input \in HeaderInputs : StartedFor(input)

HeaderSpec == HeaderInit /\ [][ParserNext]_vars

(***************************************************************************)
(* The helper functions at work, one call at a time: the matchers on a     *)
(* cursor into a short string, the encoder on a short byte string or on a  *)
(* key, the decoder on what the encoder wrote, and the hash of a key.  No  *)
(* instance runs.                                                          *)
(***************************************************************************)
\* The largest length of a subject string.
MaxSubject == 3

\* The bytes of the subject strings: the space, a letter in both cases,
\* and the two bytes of the line end.
SubjectBytes == { SP, 65, 97, CR, LF }

\* The subject strings, each in a buffer with its terminating zero.
Subjects ==
    UNION { { s \o <<NUL>> : s \in [1..n -> SubjectBytes] } :
                n \in 0..MaxSubject }

\* The tokens matched for and the terminators looked for: the letter, the
\* letter after a space, the space and the line end.
HelperTokens == { <<97>>, <<SP, 97>>, <<65, 97>>, TokSp, NN_WS_HANDSHAKE_CRLF }

HelperTermseqs == { TokSp, NN_WS_HANDSHAKE_CRLF, <<97>> }

\* The largest length of a byte string that is encoded and decoded.
MaxInput == 3

\* The bytes of those strings.
InputBytes == { 0, 1, 63, 64, 127, 128, 251, 255 }

\* 16-byte keys: those nn_random_generate yields for the instance, and
\* keys of one byte repeated.
HelperKeys == RandKeys \cup { [i \in 1..16 |-> b] : b \in InputBytes }

\* The byte strings that are encoded.
EncoderInputs ==
    UNION { [1..n -> InputBytes] : n \in 0..MaxInput } \cup HelperKeys

\* The lengths of the key slices that are hashed: with the 36 bytes of the
\* GUID they end before, at and after the ends of the blocks of the hash.
KeySliceLens == { 0, 1, 19, 20, 24, 27, 28, 83, 84, 150 }

\* The key slices that are hashed on their own: the keys of the peers and
\* a letter repeated.
KeySlices == KnownKeys \cup { [i \in 1..n |-> 120] : n \in KeySliceLens }

\* What a call that has not returned has for its results.
NoOut == <<>>

\* A call of a matcher: a token or a terminator, a cursor into a subject
\* string and the two flags.
MatcherCall(fn, arg, buf, subj, flag1, flag2) ==
    [fn |-> fn, arg |-> arg, buf |-> buf, subj |-> subj, flag1 |-> flag1,
     flag2 |-> flag2, returned |-> FALSE, out |-> NoOut]

\* A call of the encoder, of the decoder or of the hash on the bytes in:
\* out_len is the size of the output buffer, from the bytes the input was
\* encoded from.
BytesCall(fn, in, out_len, from) ==
    [fn |-> fn, in |-> in, out_len |-> out_len, from |-> from,
     returned |-> FALSE, out |-> NoOut]

\* The length of the encoded form of n bytes.
EncodedLen(n) == 4 * ((n + 2) \div 3)

HelperInit ==
    /\ self = InitSelf
    /\ fsm = "idle"
    /\ timer = "idle"
    /\ sock_owner = "parent"
    /\ sock_state = "open"
    /\ pending = NoOp
    /\ peer = NoPeer
    /\ raised = <<>>
    /\ abort = "none"
    /\ hist = InitHist
    /\ \/ \E buf \in Subjects, flag1 \in BOOLEAN, flag2 \in BOOLEAN :
              \E subj \in 1..Len(buf) :
                  \/ \E token \in HelperTokens :
                         call = MatcherCall("nn_ws_match_token", token, buf,
                                            subj, flag1, flag2)
                  \/ \E termseq \in HelperTermseqs :
                         call = MatcherCall("nn_ws_match_value", termseq, buf,
                                            subj, flag1, flag2)
       \/ \E in \in EncoderInputs :
              call = BytesCall("base64_encode", in, EncodedLen(Len(in)) + 1,
                               <<>>)
       \/ \E key \in KeySlices :
              call = BytesCall("nn_ws_handshake_hash_key", key,
                               NN_WS_HANDSHAKE_ACCEPT_KEY_LEN + 1, <<>>)

\* The call returns: out is what it returned and what it stored.
Returns(out) ==
    /\ ~call.returned
    /\ call' = [call EXCEPT !.returned = TRUE, !.out = out]
    /\ UNCHANGED <<self, fsm, timer, sock_owner, sock_state, pending, peer,
                   raised, abort, hist>>

\* A call is made with what the call before it wrote.
Calls(next) ==
    /\ call.returned
    /\ call' = next
    /\ UNCHANGED <<self, fsm, timer, sock_owner, sock_state, pending, peer,
                   raised, abort, hist>>

\* nn_ws_match_token (token, &subj, case_insensitive, ignore_leading_sp)
MatchToken ==
    /\ call.fn = "nn_ws_match_token"
    /\ Returns(nn_ws_match_token(call.arg, call.buf, call.subj, call.flag1,
                                 call.flag2))

\* nn_ws_match_value (termseq, &subj, ignore_leading_sp,
\* ignore_trailing_sp, &addr, &len)
MatchValue ==
    /\ call.fn = "nn_ws_match_value"
    /\ Returns(nn_ws_match_value(call.arg, call.buf, call.subj, call.flag1,
                                 call.flag2))

\* base64_encode (in, in_len, out, out_len)
Base64Encode ==
    /\ call.fn = "base64_encode"
    /\ Returns(base64_encode(call.in, call.out_len))

\* base64_decode (in, in_len, out, out_len)
Base64Decode ==
    /\ call.fn = "base64_decode"
    /\ Returns(base64_decode(call.in, Len(call.in), call.out_len))

\* nn_ws_handshake_hash_key (key, key_len, hashed, hashed_len)
HashesKey ==
    /\ call.fn = "nn_ws_handshake_hash_key"
    /\ Returns(nn_ws_handshake_hash_key(call.in, call.out_len))

\* What the encoder wrote is decoded, into a buffer of the size of the
\* bytes it was encoded from.
DecodesEncoded ==
    /\ call.fn = "base64_encode"
    /\ Calls(BytesCall("base64_decode", call.out.out, Len(call.in), call.in))

\* The encoded form of a 16-byte key is hashed, as the client does for the
\* accept key it expects.
HashesEncoded ==
    /\ call.fn = "base64_encode"
    /\ Len(call.in) = 16
    /\ Calls(BytesCall("nn_ws_handshake_hash_key", call.out.out,
                       NN_WS_HANDSHAKE_ACCEPT_KEY_LEN + 1, call.in))

HelperNext ==
    \/ MatchToken
    \/ MatchValue
    \/ Base64Encode
    \/ Base64Decode
    \/ HashesKey
    \/ DecodesEncoded
    \/ HashesEncoded

HelperSpec == HelperInit /\ [][HelperNext]_vars

(***************************************************************************)
(* Properties of the state machine.                                        *)
(***************************************************************************)
\* The done events (OK or ERROR) published since the start.
DoneEvents ==
    SelectSeq(raised, LAMBDA e : e.type \in {NN_WS_HANDSHAKE_OK,
                                             NN_WS_HANDSHAKE_ERROR})

\* The instance was started and is back in Idle, the process alive.
BackInIdle == fsm = "idle" /\ self.mode # "none" /\ abort = "none"

\* The stop of the parent found the machine with its timer idle, which is
\* to say in Done: the report that it stopped came with the Stop itself.
StoppedAtOnce ==
    \E i \in DOMAIN raised :
        /\ raised[i].type = NN_WS_HANDSHAKE_STOPPED
        /\ raised[i].src = NN_FSM_ACTION

\* C1, as stated: an instance that was started and is back in Idle has
\* published exactly one done event, whatever socket events, timer events
\* and parent Stops came in between.
C1_ExactlyOneDone == BackInIdle => Len(DoneEvents) = 1

\* C1, amended: at no point has an instance published more than one done
\* event since its start; back in Idle it has published exactly one when
\* the parent's Stop found it in Done, and none when the Stop interrupted
\* the handshake before the timer's Stopped was handled.
C1_AtMostOneDone ==
    /\ Len(DoneEvents) <= 1
    /\ BackInIdle => (Len(DoneEvents) = 1 <=> StoppedAtOnce)

\* Back in Idle after a complete handshake: one done event, then stopped.
C1_Witness ==
    /\ BackInIdle
    /\ Len(raised) = 2
    /\ raised[1].type = NN_WS_HANDSHAKE_OK
    /\ raised[2].type = NN_WS_HANDSHAKE_STOPPED

\* The response codes the server answers with a diagnostic 400.
FailureCodes ==
    { "TOO_BIG", "WSPROTO", "WSVERSION", "NNPROTO", "NOTPEER", "UNKNOWNTYPE" }

\* C2, as stated: a server whose reply is a diagnostic 400 never publishes
\* OK, whichever of Sent, Error or Timeout arrives after the reply.
C2_FailureReplyNeverOk ==
    (self.mode = NN_WS_SERVER /\ self.response_code \in FailureCodes)
        => \A i \in DOMAIN raised : raised[i].type # NN_WS_HANDSHAKE_OK

\* C3: every done event was raised on the timer's Stopped event, in a run
\* whose timer was armed at the start, was asked to stop, and had reported
\* Stopped by the time of the raise.
C3_DoneOnlyOnTimerStopped ==
    \A i \in DOMAIN raised :
        raised[i].type \in {NN_WS_HANDSHAKE_OK, NN_WS_HANDSHAKE_ERROR}
            => /\ raised[i].src = NN_WS_HANDSHAKE_SRC_TIMER
               /\ raised[i].on = "STOPPED"
               /\ hist.armed
               /\ hist.stop_requested
               /\ hist.stopped_seen

\* A done event has been published and the timer is idle again.
C3_Witness == Len(DoneEvents) = 1 /\ self.state = "DONE" /\ timer = "idle"

\* C4, as stated: whenever the instance is in Idle or Done the parent owns
\* the socket and the instance's reference to it is cleared.
C4_IdleOrDoneHasNoSocket ==
    self.state \in {"IDLE", "DONE"}
        => sock_owner = "parent" /\ self.usock = "NULL"

\* The request parser's verdict on the bytes received is to receive more
\* although they hold a complete CRLFCRLF: the request line did not parse.
BadRequestLine ==
    /\ self.mode = NN_WS_SERVER
    /\ HasNul(self.opening_hs)
    /\ strstr(self.opening_hs, 1, NN_WS_HANDSHAKE_TERMSEQ) # 0
    /\ nn_ws_handshake_parse_client_opening(self.opening_hs, self.sl,
           self.response_code, self.pipebase).rc = "RECV_MORE"

\* C5, as stated: a running server whose buffer holds a complete CRLFCRLF
\* and a request line that does not parse is not left receiving and has
\* not failed an assertion: it has gone on to reply.
C5_BadRequestLineIsAnswered ==
    (BadRequestLine /\ fsm = "active")
        => abort = "none" /\ self.state # "SERVER_RECV"

\* C6, as stated: no call of the request parser or of the response parser
\* finds its buffer without a NUL byte.
C6_ParserFindsNul ==
    abort \notin { "parse_client_opening: no NUL in opening_hs",
                   "parse_server_response: no NUL in response" }

\* sizeof of the buffer a receive is posted on.
BufSize(buf) == IF buf = "opening_hs" THEN OpeningHsSize ELSE ResponseSize

\* C7: the receive posted on the socket is the one the instance's recv_pos
\* and recv_len describe, and it ends within the buffer it is posted on.
C7_RecvFitsBuffer ==
    pending.op = "recv"
        => /\ pending.pos = self.recv_pos
           /\ pending.len = self.recv_len
           /\ pending.pos + pending.len <= BufSize(pending.buf)

\* An incremental receive that ends exactly at the end of its buffer.
C7_Witness ==
    /\ pending.op = "recv"
    /\ self.retries > 0
    /\ pending.pos + pending.len = BufSize(pending.buf)

\* No CRLFCRLF among the bytes of a buffer.
NoTerminator(buf) ==
    \A q \in 1..(Len(buf) - Len(NN_WS_HANDSHAKE_TERMSEQ) + 1) :
        ~MemEq(NN_WS_HANDSHAKE_TERMSEQ, buf, q, Len(NN_WS_HANDSHAKE_TERMSEQ))

\* C8, as stated: a server that is sent no CRLFCRLF answers TOO_BIG at
\* whatever position its receive loop arrives, so that its buffer is never
\* filled to the last byte.
C8_ServerAnswersBeforeBufferIsFull ==
    (self.mode = NN_WS_SERVER /\ NoTerminator(self.opening_hs))
        => HasNul(self.opening_hs)

\* C9, as stated: a client that is sent no CRLFCRLF gives up at whatever
\* position its receive loop arrives, so that its buffer is never filled to
\* the last byte.
C9_ClientGivesUpBeforeBufferIsFull ==
    (self.mode = NN_WS_CLIENT /\ NoTerminator(self.response))
        => HasNul(self.response)

\* s3pPLMBiTxaQ9kYGzzhZRbK+xOo=
AcceptOfSampleKey ==
    <<115,51,112,80,76,77,66,105,84,120,97,81,57,107,89,71,122,122,104,90,82,
      98,75,43,120,79,111,61>>

\* BACScCJPNqyz+UBoqMH89VmURoA=
AcceptOfDigitsKey ==
    <<66,65,67,83,99,67,74,80,78,113,121,122,43,85,66,111,113,77,72,56,57,86,
      109,85,82,111,65,61>>

\* The accept key RFC 6455 gives for each key the peers send.
AcceptOracle ==
    (PeerKeyValue :> AcceptOfSampleKey) @@ (PeerKeyDigitsValue :> AcceptOfDigitsKey)

\* The server found the request valid and the Sent of its reply was the
\* first of Sent, Error, Timeout and Stop.
ValidAndSent ==
    /\ self.mode = NN_WS_SERVER
    /\ self.response_code = "OK"
    /\ hist.first = "SENT"

\* C10: after a valid request and the Sent of the reply, the reply is the
\* 101 reply with the accept key of the request's key and the protocol of
\* the request, the machine is on its way to Done, and the done event it
\* publishes is OK.
C10_ValidRequestGets101AndOk ==
    ValidAndSent
        => /\ SliceBytes(self, self.sl.key) \in DOMAIN AcceptOracle
           /\ CStr(self.response, 1) =
                  Fmt101Head \o AcceptOracle[SliceBytes(self, self.sl.key)]
                      \o Fmt101Mid \o strncpy(self, self.sl.protocol)
                      \o NN_WS_HANDSHAKE_TERMSEQ
           /\ self.state \in {"STOPPING_TIMER_DONE", "DONE", "STOPPING", "IDLE"}
           /\ \A i \in DOMAIN DoneEvents :
                  DoneEvents[i].type = NN_WS_HANDSHAKE_OK
           /\ self.state = "DONE" => Len(DoneEvents) = 1

\* A valid request, the reply sent, OK published.
C10_Witness ==
    /\ ValidAndSent
    /\ self.state = "DONE"
    /\ Len(DoneEvents) = 1
    /\ DoneEvents[1].type = NN_WS_HANDSHAKE_OK

\* The states in which the handshake is at work on the socket.
WorkingStates == { "SERVER_RECV", "SERVER_REPLY", "CLIENT_SEND", "CLIENT_RECV" }

\* A socket Error or a timer Timeout is delivered to a running instance in
\* one of its working states.
Preempts ==
    /\ fsm = "active"
    /\ self.state \in WorkingStates
    /\ Error \/ Timeout

\* The timer's Stopped is delivered to a running instance that waits for it
\* in StoppingTimerError.
StoppedAfterError ==
    /\ fsm = "active"
    /\ self.state = "STOPPING_TIMER_ERROR"
    /\ Stopped

\* The machine is Done and the one done event it published is ERROR.
ErrorPublished ==
    /\ self.state = "DONE"
    /\ Len(DoneEvents) = 1
    /\ DoneEvents[1].type = NN_WS_HANDSHAKE_ERROR

\* C11: a socket Error or a timer Timeout delivered in a working state asks
\* the timer to stop and moves the machine to StoppingTimerError, whatever
\* the slices and the response code hold; the timer's Stopped then publishes
\* ERROR and the machine is Done; a run whose first event among Sent,
\* Error, Timeout and Stop was an Error or a Timeout never publishes OK;
\* and a machine in StoppingTimerError does publish ERROR, unless the
\* parent stops it first.
C11_ErrorOrTimeoutLeadsToError ==
    /\ [][ /\ Preempts =>
                /\ self'.state = "STOPPING_TIMER_ERROR"
                /\ timer' = "stopping"
                /\ abort' = "none"
                /\ raised' = raised
           /\ StoppedAfterError =>
                /\ self'.state = "DONE"
                /\ raised' = <<[type |-> NN_WS_HANDSHAKE_ERROR,
                                src |-> NN_WS_HANDSHAKE_SRC_TIMER,
                                on |-> "STOPPED"]>> ]_vars
    /\ [](hist.first \in {"ERROR", "TIMEOUT"} =>
              \A i \in DOMAIN raised : raised[i].type # NN_WS_HANDSHAKE_OK)
    /\ (fsm = "active" /\ self.state = "STOPPING_TIMER_ERROR")
           ~> (ErrorPublished \/ fsm # "active")

\* The parser had found the request valid, the Error came before the reply
\* was sent, and ERROR was published.
C11_Witness ==
    /\ ErrorPublished
    /\ self.response_code = "OK"
    /\ hist.first = "ERROR"

\* The timer's Timeout is delivered to a running server whose first receive
\* is still posted: nothing has come from the peer.
FirstRecvTimesOut ==
    /\ fsm = "active"
    /\ self.mode = NN_WS_SERVER
    /\ self.state = "SERVER_RECV"
    /\ self.recv_pos = 0
    /\ pending.op = "recv"
    /\ Timeout

\* A server that has posted no send since its start and is on its way out
\* after an error.
ServerSilentAfterError ==
    /\ self.mode = NN_WS_SERVER
    /\ fsm # "idle"
    /\ self.state \in {"STOPPING_TIMER_ERROR", "DONE"}
    /\ ~hist.send_posted

\* C12: a Timeout delivered to a server whose first receive has not
\* completed stops the timer and enters StoppingTimerError with no send
\* posted since the start; from there on no send is posted and no OK is
\* published; and the server does publish ERROR, still without a send,
\* unless the parent stops it first.
C12_ServerTimeoutWritesNothing ==
    /\ [][ /\ FirstRecvTimesOut =>
                /\ self'.state = "STOPPING_TIMER_ERROR"
                /\ timer' = "stopping"
                /\ raised' = <<>>
                /\ ~hist'.send_posted
           /\ ServerSilentAfterError =>
                /\ ~hist'.send_posted
                /\ pending'.op # "send"
                /\ \A i \in DOMAIN raised' :
                       raised'[i].type # NN_WS_HANDSHAKE_OK ]_vars
    /\ (ServerSilentAfterError /\ fsm = "active")
           ~> ((ErrorPublished /\ ~hist.send_posted) \/ fsm # "active")

\* The server was sent nothing, timed out and published ERROR without
\* having posted a send.
C12_Witness ==
    /\ self.mode = NN_WS_SERVER
    /\ ErrorPublished
    /\ hist.first = "TIMEOUT"
    /\ self.opening_hs = ZeroBuf(OpeningHsSize)
    /\ ~hist.send_posted

\* The reports that the instance stopped, among the events raised since
\* the start.
StoppedEvents ==
    SelectSeq(raised, LAMBDA e : e.type = NN_WS_HANDSHAKE_STOPPED)

\* C13: the parent's Stop, in whatever state after the start it finds the
\* instance, asks the timer to stop; if the timer is not idle the machine
\* is Stopping and nothing is reported until the timer has reported that it
\* stopped; STOPPED is reported with the timer idle and the instance back
\* in Idle, once per Stop and as the last event; and a stopping machine
\* does get back to Idle.
C13_StopWaitsForTimerAndReportsOnce ==
    /\ [][ /\ Stop =>
                /\ self.state \in WorkingStates
                      \cup {"STOPPING_TIMER_ERROR", "STOPPING_TIMER_DONE", "DONE"}
                /\ hist'.stop_requested
                /\ timer' # "active"
                /\ abort' = "none"
                /\ IF timer = "idle"
                   THEN /\ self.state = "DONE"
                        /\ self'.state = "IDLE" /\ fsm' = "idle"
                        /\ StoppedEvents' # <<>>
                   ELSE /\ self'.state = "STOPPING" /\ fsm' = "stopping"
                        /\ timer' = "stopping"
                        /\ raised' = raised
           /\ fsm = "stopping" =>
                /\ abort' = "none"
                /\ \/ fsm' = "stopping" /\ self'.state = "STOPPING"
                      /\ raised' = raised
                   \/ Stopped /\ fsm' = "idle" /\ self'.state = "IDLE"
                      /\ timer' = "idle" /\ StoppedEvents' # <<>> ]_vars
    /\ [] /\ Len(StoppedEvents) <= 1
          /\ fsm = "stopping" =>
                 self.state = "STOPPING" /\ timer = "stopping"
                     /\ StoppedEvents = <<>>
          /\ fsm = "active" => StoppedEvents = <<>>
          /\ (fsm = "idle" /\ self.mode # "none" /\ hist.first # "none") =>
                 /\ Len(StoppedEvents) = 1
                 /\ raised[Len(raised)].type = NN_WS_HANDSHAKE_STOPPED
    /\ (fsm = "stopping") ~> (fsm = "idle" /\ Len(StoppedEvents) = 1)

\* The parent stopped a handshake that was at work; the instance waited
\* for the timer and reported that it stopped on the timer's Stopped.
C13_Witness ==
    /\ BackInIdle
    /\ hist.first = "STOP"
    /\ hist.stopped_seen
    /\ raised = <<[type |-> NN_WS_HANDSHAKE_STOPPED,
                   src |-> NN_WS_HANDSHAKE_SRC_TIMER, on |-> "STOPPED"]>>

\* The index of the last byte of the first CRLFCRLF among bytes, or 0.
TermEnd(bytes) ==
    LET n == Len(NN_WS_HANDSHAKE_TERMSEQ)
        found(q) == SubSeq(bytes, q, q + n - 1) = NN_WS_HANDSHAKE_TERMSEQ
    IN  IF \E q \in 1..(Len(bytes) - n + 1) : found(q)
        THEN n - 1 + CHOOSE q \in 1..(Len(bytes) - n + 1) :
                         found(q) /\ \A j \in 1..(q - 1) : ~found(j)
        ELSE 0

\* The number of bytes the server has received: in SERVER_RECV the receive
\* posted has not completed, after it the last one has.
ServerReceived ==
    IF self.state = "SERVER_RECV" THEN self.recv_pos
    ELSE self.recv_pos + self.recv_len

\* The bytes of the peer of a server, received and still to come.
PeerStream == SubSeq(self.opening_hs, 1, ServerReceived) \o peer.bytes

\* The step of a server, started as this one was, that is handed the bytes
\* in one receive.
WholeAtOnce(bytes) ==
    nn_ws_handshake_handler(
        [StartFields(InitSelf, "parent", self.pipebase, NN_WS_SERVER,
                     Resource, RemoteHost)
            EXCEPT !.state = "SERVER_RECV",
                   !.recv_len = Len(bytes),
                   !.opening_hs = PutAt(ZeroBuf(OpeningHsSize), 1, bytes)],
        NN_WS_HANDSHAKE_SRC_USOCK, "RECEIVED", "zero")

\* The request of the peer of a server: its bytes up to the first CRLFCRLF.
PeerRequest == SubSeq(PeerStream, 1, TermEnd(PeerStream))

\* A running server at work on a request whose CRLFCRLF ends at or after
\* the end of the first receive and whose request line is one the parser
\* takes: handed the request in one receive (whole is its step then), the
\* server replies.
ServesLongRequest(whole) ==
    /\ fsm = "active"
    /\ self.mode = NN_WS_SERVER
    /\ self.state \in {"SERVER_RECV", "SERVER_REPLY"}
    /\ self.response_code # "TOO_BIG"
    /\ Len(PeerRequest) >= Len(ServerTemplate)
    /\ whole.self.state = "SERVER_REPLY"

\* What the server in SERVER_REPLY holds is what the step in one receive
\* of the request gives.
RepliesAsWholeAtOnce(whole) ==
    /\ self.response = whole.self.response
    /\ self.response_code = whole.self.response_code
    /\ self.sl = whole.self.sl
    /\ pending.op = "send" => <<pending>> = whole.fx

\* The server has asked for no byte beyond the CRLFCRLF of the request,
\* has gone through a round of RECV_MORE for every receive after the
\* first, and replies once it has received the CRLFCRLF, with the reply of
\* the step in one receive.
RoundsAsWholeAtOnce(whole) ==
    ServesLongRequest(whole) =>
        /\ self.state = "SERVER_RECV" =>
               /\ pending.op = "recv"
               /\ self.recv_pos + self.recv_len <= Len(PeerRequest)
               /\ self.retries = 0 <=> self.recv_pos = 0
        /\ self.state = "SERVER_REPLY" =>
               /\ ServerReceived = Len(PeerRequest)
               /\ self.retries = 0 <=> Len(PeerRequest) = Len(ServerTemplate)
               /\ RepliesAsWholeAtOnce(whole)

C14_WitnessWhole ==
    /\ ServesLongRequest(WholeAtOnce(PeerRequest))
    /\ self.state = "SERVER_REPLY"
    /\ self.retries = 0
    /\ self.response_code = "OK"

\* The peer of the server sends the header line, after a CRLF.
SentLine(line) ==
    \E q \in 1..(Len(PeerStream) - Len(NN_WS_HANDSHAKE_CRLF) - Len(line) + 1) :
        SubSeq(PeerStream, q, q + Len(NN_WS_HANDSHAKE_CRLF) + Len(line) - 1)
            = NN_WS_HANDSHAKE_CRLF \o line

SentHost == SentLine(PeerHost)
SentUpgrade == SentLine(PeerUpgrade) \/ SentLine(PeerUpgradeOther)
SentConnection == SentLine(PeerConnection) \/ SentLine(PeerConnectionOther)
SentKey == SentLine(PeerKey) \/ SentLine(PeerKeyDigits)
SentVersion == SentLine(PeerVersion13) \/ SentLine(PeerVersion8)

\* The server has had the verdict of the parser on a complete request and
\* has replied.
ServerReplied ==
    /\ self.mode = NN_WS_SERVER
    /\ self.state \in {"SERVER_REPLY", "STOPPING_TIMER_DONE", "DONE"}
    /\ self.response_code # "TOO_BIG"

\* The first check, in the order of the claim, that the request of the
\* peer fails; the checks of the sub-protocol come last.
FirstFailure ==
    IF ~(SentHost /\ SentUpgrade /\ SentConnection /\ SentKey /\ SentVersion)
    THEN "WSPROTO"
    ELSE IF ~SentLine(PeerVersion13) THEN "WSVERSION"
    ELSE IF ~SentLine(PeerUpgrade) THEN "WSPROTO"
    ELSE IF ~SentLine(PeerConnection) THEN "WSPROTO"
    ELSE "sub-protocol"

\* C15: the response code of a server that has replied is that of the
\* first failure in the order: a required header missing (WSPROTO), the
\* version not 13 (WSVERSION), Upgrade not websocket (WSPROTO), Connection
\* not Upgrade (WSPROTO), then the checks of the sub-protocol; a request
\* with version 8 and another value of Upgrade is answered 400 Unsupported
\* WebSocket Version.
C15_FirstFailureDecides ==
    ServerReplied =>
        /\ IF FirstFailure = "sub-protocol"
           THEN self.response_code \in {"OK", "NOTPEER", "UNKNOWNTYPE"}
           ELSE self.response_code = FirstFailure
        /\ (SentHost /\ SentLine(PeerVersion8) /\ SentLine(PeerUpgradeOther)) =>
               SubSeq(self.response, 1, Len(PeerStatus400)) = PeerStatus400

\* A request with version 8 and another value of Upgrade has been
\* answered.
C15_Witness ==
    /\ ServerReplied
    /\ SentHost /\ SentLine(PeerVersion8) /\ SentLine(PeerUpgradeOther)
    /\ self.response_code = "WSVERSION"
    /\ pending.op = "send"

(***************************************************************************)
(* C16.  A request without a required header.                              *)
(***************************************************************************)
\* One of the five required header lines is not in what the peer sends.
MissingRequired ==
    ~(SentHost /\ SentUpgrade /\ SentConnection /\ SentKey /\ SentVersion)

\* HTTP/1.1 400 Cannot Have Body\r\n
PeerStatusBody ==
    <<72,84,84,80,47,49,46,49,32,52,48,48,32,67,97,110,110,111,116,32,72,97,
      118,101,32,66,111,100,121,13,10>>

\* C16: a complete request without one or more of Host, Upgrade, Connection,
\* Sec-WebSocket-Key and Sec-WebSocket-Version, whichever are missing and
\* in whatever order the others come, is found invalid with the response
\* code WSPROTO, and the reply the server writes is the 400 of that code.
C16_MissingHeaderRejected ==
    (ServerReplied /\ MissingRequired) =>
        /\ self.response_code = "WSPROTO"
        /\ SubSeq(self.response, 1, Len(PeerStatusBody)) = PeerStatusBody

\* A request that lacks the key alone, the version first and the host last
\* of its lines, has been answered.
C16_Witness ==
    /\ ServerReplied
    /\ ~SentKey
    /\ SentUpgrade /\ SentConnection
    /\ SubSeq(PeerStream, 1, Len(PeerGet) + Len(PeerVersion13))
           = PeerGet \o PeerVersion13
    \* X-Pad:
    /\ SentLine(PeerHost \o <<88,45,80,97,100,58>>)
    /\ self.response_code = "WSPROTO"
    /\ pending.op = "send"

(***************************************************************************)
(* C17.  The protocol header against the SP map and the peer check.        *)
(***************************************************************************)
\* A letter without its case.
Folded(c) == IF c \in 65..90 THEN c + 32 ELSE c

\* The value has the length and, but for the case, the letters of the token.
EqualsToken(value, token) ==
    /\ Len(value) = Len(token)
    /\ \A k \in 1..Len(token) : Folded(value[k]) = Folded(token[k])

\* The socket types whose token the value equals.
SpsOf(value) ==
    { NN_WS_HANDSHAKE_SP_MAP[i].sp :
          i \in { j \in 1..NN_WS_HANDSHAKE_SP_MAP_LEN :
                      EqualsToken(value, NN_WS_HANDSHAKE_SP_MAP[j].ws_sp) } }

\* HTTP/1.1 400 Incompatible Socket Type\r\n
PeerStatusNotPeer ==
    <<72,84,84,80,47,49,46,49,32,52,48,48,32,73,110,99,111,109,112,97,116,105,
      98,108,101,32,83,111,99,107,101,116,32,84,121,112,101,13,10>>

\* HTTP/1.1 400 Unrecognized Socket Type\r\n
PeerStatusUnknown ==
    <<72,84,84,80,47,49,46,49,32,52,48,48,32,85,110,114,101,99,111,103,110,
      105,122,101,100,32,83,111,99,107,101,116,32,84,121,112,101,13,10>>

\* The response code and the first line of the reply the claim gives a
\* protocol value on a server of the socket type.
ProtoVerdict(value, local_sp) ==
    IF SpsOf(value) = {}
    THEN [code |-> "UNKNOWNTYPE", status |-> PeerStatusUnknown]
    ELSE IF \E sp \in SpsOf(value) : nn_pipebase_ispeer(local_sp, sp)
    THEN [code |-> "OK", status |-> PeerStatus101]
    ELSE [code |-> "NOTPEER", status |-> PeerStatusNotPeer]

\* The reply of the server starts with the line.
ReplyStarts(status) == SubSeq(self.response, 1, Len(status)) = status

\* C17: for a request that passes the checks of the WebSocket headers and
\* has a Sec-WebSocket-Protocol header, the verdict is VALID with OK when
\* the value equals, whatever its case and at the same length, a token of
\* the SP map whose socket type is a peer of the local one, INVALID with
\* NOTPEER (400 Incompatible Socket Type) when it equals a token of a
\* type that is no peer, and INVALID with UNKNOWNTYPE (400 Unrecognized
\* Socket Type) when it equals no token.
C17_ProtocolLookupDecides ==
    \A value \in ProtoValues :
        (ServerReplied /\ FirstFailure = "sub-protocol"
             /\ SentLine(ProtoLine(value))) =>
            /\ self.response_code = ProtoVerdict(value, self.pipebase).code
            /\ ReplyStarts(ProtoVerdict(value, self.pipebase).status)

\* A REQ server has answered a request for x-nanomsg-pub.
C17_Witness ==
    /\ ServerReplied
    /\ FirstFailure = "sub-protocol"
    /\ self.pipebase = "REQ"
    /\ SentLine(PeerProtoPub)
    /\ self.response_code = "NOTPEER"
    /\ ReplyStarts(PeerStatusNotPeer)
    /\ pending.op = "send"

\* A SURVEYOR server has accepted a request for X-NANOMSG-RESPONDENT.
C17_WitnessUpper ==
    /\ ServerReplied
    /\ self.pipebase = "SURVEYOR"
    /\ SentLine(ProtoLine(Upper(NN_WS_HANDSHAKE_SP_MAP[7].ws_sp)))
    /\ self.response_code = "OK"
    /\ ReplyStarts(PeerStatus101)

\* A server has answered a request for x-nanomsg-pairs.
C17_WitnessUnknown ==
    /\ ServerReplied
    /\ SentLine(ProtoLine(<<120,45,110,97,110,111,109,115,103,45,112,97,105,
                            114,115>>))
    /\ self.response_code = "UNKNOWNTYPE"
    /\ ReplyStarts(PeerStatusUnknown)

(***************************************************************************)
(* C18.  No protocol header: the peer is taken to be PAIR.                 *)
(***************************************************************************)
\* Sec-WebSocket-Protocol:
ProtoName ==
    <<83,101,99,45,87,101,98,83,111,99,107,101,116,45,80,114,111,116,111,99,
      111,108,58>>

\* C18: for a request that passes the checks of the WebSocket headers and
\* has no Sec-WebSocket-Protocol header, the verdict is VALID with OK
\* exactly when PAIR is a peer of the local socket type, and INVALID with
\* NOTPEER otherwise.
C18_NoProtocolMeansPair ==
    (ServerReplied /\ FirstFailure = "sub-protocol" /\ ~SentLine(ProtoName)) =>
        /\ self.response_code \in {"OK", "NOTPEER"}
        /\ self.response_code = "OK" <=>
               nn_pipebase_ispeer(self.pipebase, "PAIR")
        /\ ReplyStarts(IF nn_pipebase_ispeer(self.pipebase, "PAIR")
                       THEN PeerStatus101 ELSE PeerStatusNotPeer)

\* A PAIR server has accepted a request without a protocol header.
C18_Witness ==
    /\ ServerReplied
    /\ FirstFailure = "sub-protocol"
    /\ ~SentLine(ProtoName)
    /\ self.pipebase = "PAIR"
    /\ self.response_code = "OK"
    /\ pending.op = "send"

\* A BUS server has refused a request without a protocol header.
C18_WitnessNotPeer ==
    /\ ServerReplied
    /\ FirstFailure = "sub-protocol"
    /\ ~SentLine(ProtoName)
    /\ self.pipebase = "BUS"
    /\ self.response_code = "NOTPEER"

(***************************************************************************)
(* C19.  A request line with an empty request-URI.                         *)
(***************************************************************************)
\* The request parser has returned VALID: the server replies 101.
RequestAccepted == ServerReplied /\ self.response_code = "OK"

\* C19, as stated: no request whose request line is GET, two spaces and
\* HTTP/1.1 is accepted; the uri slice of an accepted request has a length
\* of at least 1.
C19_EmptyUriNeverValid ==
    RequestAccepted =>
        /\ self.sl["uri"].len >= 1
        /\ SubSeq(PeerStream, 1, Len(PeerGetEmptyUri)) # PeerGetEmptyUri

(***************************************************************************)
(* C20.  The request parser on bytes without a CRLFCRLF.                   *)
(***************************************************************************)
\* The server is handed the bytes of a receive.
ServerReceives ==
    /\ self.mode = NN_WS_SERVER
    /\ self.state = "SERVER_RECV"
    /\ \E uninit_read \in UninitReads : Received(uninit_read)

\* What the request parser, called on the buffer with what the instance
\* held before, returns and leaves.
Untouched(parsed) ==
    /\ parsed.rc = "RECV_MORE"
    /\ parsed.sl = self.sl
    /\ parsed.response_code = self.response_code

\* C20, as stated: whenever the server parses a buffer that holds no
\* CRLFCRLF, the request parser returns RECV_MORE and leaves the eight
\* slices and the response code as they were before the call; the step
\* ends with the slices unchanged and without a failed assertion.
C20_RecvMoreLeavesSlices ==
    [][(ServerReceives /\ NoTerminator(self'.opening_hs)) =>
           /\ Untouched(nn_ws_handshake_parse_client_opening(
                  self'.opening_hs, self.sl, self.response_code,
                  self.pipebase))
           /\ abort' = "none"
           /\ self'.sl = self.sl]_vars

(***************************************************************************)
(* C21.  The client and the checks of the response.                        *)
(***************************************************************************)
\* The bytes of the peer of a client, received and still to come.
ResponseStream == CStr(self.response, 1) \o peer.bytes

\* The line, preceded by CRLF, is among the bytes of the sequence.
HasLine(bytes, line) ==
    \E q \in 1..(Len(bytes) - Len(NN_WS_HANDSHAKE_CRLF) - Len(line) + 1) :
        SubSeq(bytes, q, q + Len(NN_WS_HANDSHAKE_CRLF) + Len(line) - 1)
            = NN_WS_HANDSHAKE_CRLF \o line

\* The key of the request the client wrote.
KeySent(key) ==
    \* Sec-WebSocket-Key:
    HasLine(CStr(self.opening_hs, 1),
            <<83,101,99,45,87,101,98,83,111,99,107,101,116,45,75,101,121,58,
              32>> \o key \o NN_WS_HANDSHAKE_CRLF)

\* The response of the peer passes every check: the status code is 101,
\* Upgrade is websocket, Connection is Upgrade, and the accept value is,
\* whatever its case and at the same length, the one RFC 6455 gives for
\* the key the client sent.
ResponsePasses ==
    \* HTTP/1.1 101 and a space
    /\ SubSeq(ResponseStream, 1, Len(PeerStatusBare) - 1)
           = <<72,84,84,80,47,49,46,49,32,49,48,49,32>>
    /\ HasLine(ResponseStream, PeerUpgrade)
    /\ HasLine(ResponseStream, PeerConnection)
    /\ \E key \in DOMAIN AcceptOracle, value \in AcceptValues :
           /\ KeySent(key)
           /\ HasLine(ResponseStream, AcceptLine(value))
           /\ EqualsToken(value, AcceptOracle[key])

\* The client has the whole of a response, up to its CRLFCRLF, in its
\* buffer.
ResponseComplete ==
    /\ self.mode = NN_WS_CLIENT
    /\ self.state # "CLIENT_SEND"
    /\ ~NoTerminator(self.response)

\* The client is on its way to OK or has published it.
ClientOk ==
    /\ self.mode = NN_WS_CLIENT
    /\ \/ self.state = "STOPPING_TIMER_DONE"
       \/ \E i \in 1..Len(DoneEvents) :
              DoneEvents[i].type = NN_WS_HANDSHAKE_OK

\* C21, as stated: a client ends with OK only if the response passed
\* every check of the response parser, and every other complete response
\* takes it, without a failed assertion, to StoppingTimerError and to the
\* one done event ERROR.
C21_OkOnlyForValidResponse ==
    /\ ClientOk => ResponsePasses
    /\ (ResponseComplete /\ ~ResponsePasses) =>
           /\ abort = "none"
           /\ self.state \in {"STOPPING_TIMER_ERROR", "DONE"}
           /\ self.state = "DONE" => ErrorPublished

(***************************************************************************)
(* C22.  The order of the socket operations of a client.                   *)
(***************************************************************************)
\* The parent starts the instance as a client.
ClientStarts ==
    \E pipebase \in LocalSps, stream \in Responses, rand_key \in RandKeys :
        Start(NN_WS_CLIENT, pipebase, stream, rand_key)

\* A running client.
ClientRuns == self.mode = NN_WS_CLIENT /\ fsm = "active" /\ abort = "none"

\* C22: the start of a client posts one send, that of the request it
\* wrote, and enters ClientSend; while the client is in ClientSend the
\* operation posted is that send and no receive; the Sent of the request
\* posts the first receive, at offset 0 of the response buffer and of the
\* length of the shortest response, and enters ClientRecv; every receive a
\* client posts comes after that Sent; and a client posts one send in a
\* handshake.
C22_ClientSendsOnceThenReceives ==
    /\ [][(ClientStarts /\ abort' = "none") =>
              /\ self'.state = "CLIENT_SEND"
              /\ hist'.sends = 1
              /\ pending' = FxSend(CStr(self'.opening_hs, 1))]_vars
    /\ [][(ClientRuns /\ self.state = "CLIENT_SEND" /\ Sent) =>
              /\ self'.state = "CLIENT_RECV"
              /\ pending' = FxRecv("response", 0, Len(ClientTemplate))]_vars
    /\ [][(self'.mode = NN_WS_CLIENT /\ pending'.op = "recv"
               /\ pending' # pending) =>
              /\ hist'.first = "SENT"
              /\ pending.op = "send" => pending'.pos = 0]_vars
    /\ []((ClientRuns /\ self.state = "CLIENT_SEND") => pending.op = "send")
    /\ [](self.mode = NN_WS_CLIENT => hist.sends <= 1)

\* The request of a client was sent and its first receive is posted.
C22_Witness ==
    /\ ClientRuns
    /\ self.state = "CLIENT_RECV"
    /\ self.recv_pos = 0
    /\ pending = FxRecv("response", 0, Len(ClientTemplate))
    /\ hist.sends = 1
    /\ hist.first = "SENT"

(***************************************************************************)
(* C23.  Slices left from the handshake before.                            *)
(***************************************************************************)
\* The server replies on this step.
ServerReplies ==
    /\ ServerReceives
    /\ abort' = "none"
    /\ self'.state = "SERVER_REPLY"

\* A slice that refers to the request buffer.
RefersToRequest(slice) == slice.buf = "opening_hs"

\* C23, as stated: when a server replies to bytes in which the parser
\* found no CRLFCRLF, so that no parse of this handshake has written the
\* slices, the version slice the reply generator copies does not refer to
\* the request buffer, which start has zeroed since the slice was written;
\* and the slices a reply is made of are those of the parse of this step.
C23_NoSliceOutlivesItsBuffer ==
    [][ServerReplies =>
           IF NoTerminator(self'.opening_hs)
           THEN ~RefersToRequest(self.sl["version"])
           ELSE self'.sl =
                    nn_ws_handshake_parse_client_opening(
                        self'.opening_hs, self.sl, self.response_code,
                        self.pipebase).sl]_vars

(***************************************************************************)
(* C24.  The fatal branches of the handler and of the shutdown function.   *)
(***************************************************************************)
\* C24, as stated: whatever the socket and the timer deliver within their
\* contracts and whenever the parent starts and stops the instance, no
\* event reaches a bad-state, bad-source or bad-action branch.
C24_NoFatalBranch ==
    abort \notin { "nn_fsm_bad_state", "nn_fsm_bad_source",
                   "nn_fsm_bad_action" }

(***************************************************************************)
(* C25.  The advisory shutdown of the socket.                              *)
(***************************************************************************)
\* The socket delivers its Shutdown event to an instance at work.
ShutdownAtWork == fsm = "active" /\ self.state \in WorkingStates /\ Shutdown

\* C25: a Shutdown event of the socket delivered in SERVER_RECV,
\* SERVER_REPLY, CLIENT_SEND or CLIENT_RECV changes nothing: the state,
\* recv_pos, recv_len, the buffers and every other field of the instance,
\* the timer, the operation posted on the socket, the owner of the socket
\* and the events published are what they were, and no assertion fails.
C25_ShutdownChangesNothing ==
    [][ShutdownAtWork =>
           /\ self' = self
           /\ fsm' = fsm
           /\ timer' = timer
           /\ pending' = pending
           /\ sock_owner' = sock_owner
           /\ raised' = raised
           /\ hist'.sends = hist.sends
           /\ abort' = "none"]_vars

\* A Shutdown event is delivered to a client that waits for the response
\* and to a server that waits for the rest of the request, the timer
\* running: the step is the one the property above is about, and it ends in
\* the state it was taken in.
C25_Witness ==
    /\ self.mode = NN_WS_CLIENT
    /\ self.state = "CLIENT_RECV"
    /\ self.recv_pos > 0
    /\ timer = "active"
    /\ pending.op = "recv"
    /\ ENABLED ShutdownAtWork

C25_WitnessServer ==
    /\ self.mode = NN_WS_SERVER
    /\ self.state = "SERVER_REPLY"
    /\ timer = "active"
    /\ pending.op = "send"
    /\ ENABLED ShutdownAtWork

(***************************************************************************)
(* C26.  The matchers and the caller's cursor.                             *)
(***************************************************************************)
\* A call of a matcher has returned.
MatcherReturned ==
    /\ call.fn \in {"nn_ws_match_token", "nn_ws_match_value"}
    /\ call.returned

\* C26: whenever the token matcher or the value matcher returns NOMATCH,
\* the caller's cursor is where it was before the call, for every token
\* and terminator, every cursor into every subject string and every
\* combination of the flags.
C26_NoMatchLeavesCursor ==
    (MatcherReturned /\ call.out.rc = NOMATCH) => call.out.subj = call.subj

\* The token matcher skipped leading spaces and then failed on a byte of
\* the subject.
C26_Witness ==
    /\ MatcherReturned
    /\ call.fn = "nn_ws_match_token"
    /\ call.flag2
    /\ SkipLeadingSp(call.buf, call.subj) > call.subj
    /\ At(call.buf, SkipLeadingSp(call.buf, call.subj)) # NUL
    /\ call.out.rc = NOMATCH

\* The value matcher found no terminator after the cursor, in a subject
\* that has the terminator before it.
C26_WitnessValue ==
    /\ MatcherReturned
    /\ call.fn = "nn_ws_match_value"
    /\ call.subj > 1
    /\ strstr(call.buf, 1, call.arg) # 0
    /\ At(call.buf, call.subj) # NUL
    /\ call.out.rc = NOMATCH

\* The matchers advance the cursor when they match.
C26_WitnessMatch ==
    /\ MatcherReturned
    /\ call.out.rc = MATCH
    /\ call.out.subj > call.subj

(***************************************************************************)
(* C27.  Header lines the request parser does not know.                    *)
(***************************************************************************)
\* X:\r\n
PeerUnknown == <<88,58,13,10>>

\* Header lines that start with no name the request parser knows: X: with
\* no value, a Host line after a space, a Host line after X-, and two
\* lines at once.
UnknownLines ==
    { PeerUnknown, <<SP>> \o PeerHost, <<88,45>> \o PeerHost,
      PeerUnknown \o PadLine(0) }

\* Where the lines of the header block of a complete request start, the
\* empty line that ends the block included.
HeaderStarts(buf) ==
    { q + Len(NN_WS_HANDSHAKE_CRLF) :
          q \in { r \in 1..strstr(buf, 1, NN_WS_HANDSHAKE_TERMSEQ) :
                      MemEq(NN_WS_HANDSHAKE_CRLF, buf, r,
                            Len(NN_WS_HANDSHAKE_CRLF)) } }

\* The first n bytes of the bytes given, followed by zero bytes.
Fit(bytes, n) == SubSeq(bytes \o ZeroBuf(n), 1, n)

\* The request buffer with the line put in at p, where the buffer has the
\* room.
Inserted(buf, p, line) ==
    Fit(SubSeq(buf, 1, p - 1) \o line \o CStr(buf, p), Len(buf))

HasRoom(buf, line) == strlen(buf, 1) + Len(line) < Len(buf)

\* The bytes a slice of the request parser refers to in buf, or the slice
\* itself when it refers to nothing there.
SliceValue(buf, slice) ==
    IF slice.buf = "opening_hs" /\ slice.addr > 0
    THEN SubSeq(buf, slice.addr, slice.addr + slice.len - 1)
    ELSE <<slice>>

\* Two runs of the request parser, on buf and on other, end alike: the same
\* result, the same response code and the same values of the slices.
SameVerdict(buf, parsed, other, reparsed) ==
    /\ reparsed.rc = parsed.rc
    /\ reparsed.abort = parsed.abort
    /\ reparsed.response_code = parsed.response_code
    /\ \A name \in RequestSlices \cup {"extensions"} :
           SliceValue(other, reparsed.sl[name])
               = SliceValue(buf, parsed.sl[name])

\* The server has just had the verdict of the parser on the complete
\* request its buffer holds.
ServerHasVerdict ==
    /\ self.mode = NN_WS_SERVER
    /\ self.state = "SERVER_REPLY"
    /\ self.response_code # "TOO_BIG"

\* The parser run again on the buffer with one of the lines put in at one
\* of the starts ends as the run `parsed` on the buffer did.
InsertionsKeep(parsed) ==
    \A p \in HeaderStarts(self.opening_hs), line \in UnknownLines :
        HasRoom(self.opening_hs, line) =>
            SameVerdict(self.opening_hs, parsed,
                        Inserted(self.opening_hs, p, line),
                        nn_ws_handshake_parse_client_opening(
                            Inserted(self.opening_hs, p, line), self.sl,
                            self.response_code, self.pipebase))

\* C27: header lines that start with no recognized header name, put in
\* anywhere in the header block of a complete request that the buffer
\* still holds with them, change neither the result of the request parser
\* (VALID or INVALID), nor its response code, nor the values of the
\* recognized slices.
C27_UnknownLinesChangeNothing ==
    ServerHasVerdict =>
        /\ InsertionsKeep(nn_ws_handshake_parse_client_opening(
               self.opening_hs, self.sl, self.response_code, self.pipebase))
        /\ nn_ws_handshake_parse_client_opening(
               self.opening_hs, self.sl, self.response_code,
               self.pipebase).response_code = self.response_code

\* A request with the five required lines was found valid, and there is
\* room for each of the lines at each of its seven starts.
C27_Witness ==
    /\ ServerHasVerdict
    /\ self.response_code = "OK"
    /\ Cardinality(HeaderStarts(self.opening_hs)) >= 7
    /\ \A line \in UnknownLines : HasRoom(self.opening_hs, line)

\* A request with a protocol line was found valid, with room for a line.
C27_WitnessProtocol ==
    /\ ServerHasVerdict
    /\ self.response_code = "OK"
    /\ self.sl["protocol"].len > 0
    /\ HasRoom(self.opening_hs, PeerUnknown)

\* A request was found invalid for its version, with room for the lines.
C27_WitnessInvalid ==
    /\ ServerHasVerdict
    /\ self.response_code = "WSVERSION"
    /\ \A line \in UnknownLines : HasRoom(self.opening_hs, line)

(***************************************************************************)
(* C28.  Spaces around the value of a header.                              *)
(***************************************************************************)
\* n spaces.
Spaces(n) == [i \in 1..n |-> SP]

\* The header the line at p starts with, among those the request parser
\* knows, or 0.
KnownAt(buf, p) == FirstHeader(RequestHeaders, 1, buf, p)

\* Where the lines of the header block start that have a header the
\* request parser knows.
KnownStarts(buf) == { p \in HeaderStarts(buf) : KnownAt(buf, p) # 0 }

\* Where the value of the header line at p starts, after the colon, and
\* where the CRLF of the line is.
ValueStart(buf, p) == p + Len(RequestHeaders[KnownAt(buf, p)].name)

ValueEnd(buf, p) == strstr(buf, p, NN_WS_HANDSHAKE_CRLF)

\* The buffer with value put in the place of the bytes from v up to e.
Revalued(buf, v, e, value) ==
    Fit(SubSeq(buf, 1, v - 1) \o value \o CStr(buf, e), Len(buf))

\* The buffer with two more spaces before and after the value of the line
\* at p.
Spaced(buf, p) ==
    Revalued(buf, ValueStart(buf, p), ValueEnd(buf, p),
             Spaces(2) \o SubSeq(buf, ValueStart(buf, p), ValueEnd(buf, p) - 1)
                 \o Spaces(2))

\* The buffer with n spaces for the value of the line at p.
Blanked(buf, p, n) ==
    Revalued(buf, ValueStart(buf, p), ValueEnd(buf, p), Spaces(n))

\* A slice of the request buffer neither starts nor ends with a space, and
\* has nothing but spaces from the colon before it to the CRLF after it.
Trimmed(buf, slice) ==
    (slice.buf = "opening_hs" /\ slice.addr > 0) =>
        /\ slice.len > 0 => /\ At(buf, slice.addr) # SP
                            /\ At(buf, slice.addr + slice.len - 1) # SP
        /\ \E n \in 0..Len(buf) :
               /\ \A i \in 1..n : At(buf, slice.addr - i) = SP
               /\ At(buf, slice.addr - n - 1) = 58
        /\ \E n \in 0..Len(buf) :
               /\ \A i \in 0..(n - 1) : At(buf, slice.addr + slice.len + i) = SP
               /\ MemEq(NN_WS_HANDSHAKE_CRLF, buf, slice.addr + slice.len + n,
                        Len(NN_WS_HANDSHAKE_CRLF))

\* The parser, run on the buffer with n spaces for the value of the line
\* at p, matches the line with a slice of length 0.
BlankMatches(p, reparsed) ==
    /\ reparsed.rc \in {"VALID", "INVALID"}
    /\ reparsed.sl[RequestHeaders[KnownAt(self.opening_hs, p)].field].addr # 0
    /\ reparsed.sl[RequestHeaders[KnownAt(self.opening_hs, p)].field].len = 0

\* What C28 says of the run `parsed` of the request parser on the buffer.
SpacesKeep(parsed) ==
    /\ \A name \in RequestSlices \ {"uri"} :
           Trimmed(self.opening_hs, parsed.sl[name])
    /\ \A p \in KnownStarts(self.opening_hs) :
           /\ HasRoom(self.opening_hs, Spaces(4)) =>
                  SameVerdict(self.opening_hs, parsed,
                              Spaced(self.opening_hs, p),
                              nn_ws_handshake_parse_client_opening(
                                  Spaced(self.opening_hs, p), self.sl,
                                  self.response_code, self.pipebase))
           /\ \A n \in {0, 2} :
                  BlankMatches(p, nn_ws_handshake_parse_client_opening(
                                      Blanked(self.opening_hs, p, n), self.sl,
                                      self.response_code, self.pipebase))

\* C28: the slice captured for a recognized header has none of the spaces
\* before and after the value, so that the parser returns the same result,
\* response code and slice values for a complete request and for the
\* request with more spaces around the value of a header; and a header
\* whose value is empty or made of spaces only is matched with a slice of
\* length 0.
C28_ValueIsTrimmed ==
    ServerHasVerdict =>
        SpacesKeep(nn_ws_handshake_parse_client_opening(
            self.opening_hs, self.sl, self.response_code, self.pipebase))

\* A request with the five required lines was found valid, and has room
\* for the spaces.
C28_Witness ==
    /\ ServerHasVerdict
    /\ self.response_code = "OK"
    /\ Cardinality(KnownStarts(self.opening_hs)) >= 5
    /\ HasRoom(self.opening_hs, Spaces(4))
    /\ self.sl["key"].len > 0
    /\ At(self.opening_hs, self.sl["key"].addr - 1) = SP

(***************************************************************************)
(* C29.  Decoding what was encoded.                                        *)
(***************************************************************************)
\* The decoder has returned from a call on what the encoder wrote.
DecodedEncoded == call.fn = "base64_decode" /\ call.returned

\* C29: base64_decode applied to what base64_encode wrote for a byte
\* string returns the length of the byte string and writes its bytes, the
\* output buffers being large enough: that of the encoder for the encoded
\* form and its terminating zero, that of the decoder for the bytes.
C29_DecodeInvertsEncode ==
    DecodedEncoded =>
        /\ call.in = base64_encode(call.from,
                                   EncodedLen(Len(call.from)) + 1).out
        /\ call.out.rc = Len(call.from)
        /\ call.out.out = call.from

\* Three bytes that use all four characters of a group, and a byte string
\* that is encoded with padding, have been encoded and decoded.
C29_Witness ==
    /\ DecodedEncoded
    /\ call.from = <<251, 255, 63>>
    /\ Len(call.in) = 4
    /\ call.out.rc = 3

C29_WitnessPadded ==
    /\ DecodedEncoded
    /\ Len(call.from) = 1
    /\ call.from[1] = 255
    /\ SubSeq(call.in, 3, 4) = <<61, 61>>

C29_WitnessKey ==
    /\ DecodedEncoded
    /\ call.from = RandKeyNonce
    /\ call.in = PeerKeyValue

(***************************************************************************)
(* C30.  The lengths of the encoded key and of the accept key.             *)
(***************************************************************************)
\* The encoder has returned from a call on a 16-byte key.
KeyEncoded ==
    call.fn = "base64_encode" /\ call.returned /\ Len(call.in) = 16

\* The hash has returned from a call on a key slice.
KeyHashed == call.fn = "nn_ws_handshake_hash_key" /\ call.returned

\* C30: the encoded form of every 16-byte key is a string of exactly 24
\* characters, and the accept key of every key slice is a string of
\* exactly 28 characters, returned as its length: what the request
\* generator asserts of strlen (encoded_key) and of the length the hash
\* returns, and what the reply generator asserts of strlen (accept_key).
C30_KeyLengths ==
    /\ KeyEncoded =>
           /\ call.out.rc = 24
           /\ strlen(call.out.out \o <<NUL>>, 1) = 24
    /\ KeyHashed =>
           /\ call.out.rc = NN_WS_HANDSHAKE_ACCEPT_KEY_LEN
           /\ strlen(call.out.hashed \o <<NUL>>, 1)
                  = NN_WS_HANDSHAKE_ACCEPT_KEY_LEN

\* The key of a client has been encoded and its encoded form hashed, as
\* the request generator does.
C30_Witness ==
    /\ KeyHashed
    /\ call.from = RandKeyDigits
    /\ call.in = PeerKeyDigitsValue
    /\ Len(call.out.hashed) = 28

\* Key slices that are empty and that take more than two blocks of the
\* hash have been hashed.
C30_WitnessEmpty == KeyHashed /\ call.in = <<>>

C30_WitnessLong == KeyHashed /\ Len(call.in) = 150

\* A key of bytes 255 has been encoded.
C30_WitnessEncoded == KeyEncoded /\ call.in[1] = 255 /\ call.in[16] = 255

(***************************************************************************)
(* C31.  The accept key and a reference SHA-1.                             *)
(***************************************************************************)
\* The accept keys that a reference implementation of RFC 6455 (SHA-1 of
\* the key followed by the GUID, in base64) gives for the keys that are
\* hashed: pairs of a key and its accept key.
ReferenceAccept ==
    {
      \* dGhlIHNhbXBsZSBub25jZQ== -> s3pPLMBiTxaQ9kYGzzhZRbK+xOo=
      << <<100,71,104,108,73,72,78,104,98,88,66,115,90,83,66,117,98,50,53,
           106,90,81,61,61>>,
         <<115,51,112,80,76,77,66,105,84,120,97,81,57,107,89,71,122,122,104,
           90,82,98,75,43,120,79,111,61>> >>,
      \* MDEyMzQ1Njc4OWFiY2RlZg== -> BACScCJPNqyz+UBoqMH89VmURoA=
      << <<77,68,69,121,77,122,81,49,78,106,99,52,79,87,70,105,89,50,82,108,
           90,103,61,61>>,
         <<66,65,67,83,99,67,74,80,78,113,121,122,43,85,66,111,113,77,72,56,
           57,86,109,85,82,111,65,61>> >>,
      \* AAAAAAAAAAAAAAAAAAAAAA== -> ICX+Yqv66kxgM0FcWaLWlFLwTAI=
      << <<65,65,65,65,65,65,65,65,65,65,65,65,65,65,65,65,65,65,65,65,65,
           65,61,61>>,
         <<73,67,88,43,89,113,118,54,54,107,120,103,77,48,70,99,87,97,76,87,
           108,70,76,119,84,65,73,61>> >>,
      \* AQEBAQEBAQEBAQEBAQEBAQ== -> 5tWd1XMQfqfRMZqGrwjPEgEvyeE=
      << <<65,81,69,66,65,81,69,66,65,81,69,66,65,81,69,66,65,81,69,66,65,
           81,61,61>>,
         <<53,116,87,100,49,88,77,81,102,113,102,82,77,90,113,71,114,119,
           106,80,69,103,69,118,121,101,69,61>> >>,
      \* Pz8/Pz8/Pz8/Pz8/Pz8/Pw== -> QTDAS+bASmwsrnacyKzUEWak6aM=
      << <<80,122,56,47,80,122,56,47,80,122,56,47,80,122,56,47,80,122,56,47,
           80,119,61,61>>,
         <<81,84,68,65,83,43,98,65,83,109,119,115,114,110,97,99,121,75,122,
           85,69,87,97,107,54,97,77,61>> >>,
      \* QEBAQEBAQEBAQEBAQEBAQA== -> IDvwbDqIYTnOw6jqHLby3AeDqdM=
      << <<81,69,66,65,81,69,66,65,81,69,66,65,81,69,66,65,81,69,66,65,81,
           65,61,61>>,
         <<73,68,118,119,98,68,113,73,89,84,110,79,119,54,106,113,72,76,98,
           121,51,65,101,68,113,100,77,61>> >>,
      \* f39/f39/f39/f39/f39/fw== -> /J61+JeTK9+7A10DGA90OEN39is=
      << <<102,51,57,47,102,51,57,47,102,51,57,47,102,51,57,47,102,51,57,47,
           102,119,61,61>>,
         <<47,74,54,49,43,74,101,84,75,57,43,55,65,49,48,68,71,65,57,48,79,
           69,78,51,57,105,115,61>> >>,
      \* gICAgICAgICAgICAgICAgA== -> L2g8pDb9ESyzTrOZPi3BvJdk6FQ=
      << <<103,73,67,65,103,73,67,65,103,73,67,65,103,73,67,65,103,73,67,65,
           103,65,61,61>>,
         <<76,50,103,56,112,68,98,57,69,83,121,122,84,114,79,90,80,105,51,
           66,118,74,100,107,54,70,81,61>> >>,
      \* +/v7+/v7+/v7+/v7+/v7+w== -> bnaLbTR//dZJAH6dPjxifGyMyjw=
      << <<43,47,118,55,43,47,118,55,43,47,118,55,43,47,118,55,43,47,118,55,
           43,119,61,61>>,
         <<98,110,97,76,98,84,82,47,47,100,90,74,65,72,54,100,80,106,120,
           105,102,71,121,77,121,106,119,61>> >>,
      \* /////////////////////w== -> XXpj4jYzLM2yUE0C7TIgMwTQh2g=
      << <<47,47,47,47,47,47,47,47,47,47,47,47,47,47,47,47,47,47,47,47,47,
           119,61,61>>,
         <<88,88,112,106,52,106,89,122,76,77,50,121,85,69,48,67,55,84,73,
           103,77,119,84,81,104,50,103,61>> >>,
      \* 0 times x -> Kfh9QIsMVZcl6xEPYxPHzW8SZ8w=
      << [i \in 1..0 |-> 120],
         <<75,102,104,57,81,73,115,77,86,90,99,108,54,120,69,80,89,120,80,
           72,122,87,56,83,90,56,119,61>> >>,
      \* 1 times x -> JVxkmtKFjDcI/Pm/AGPEKSN6wT8=
      << [i \in 1..1 |-> 120],
         <<74,86,120,107,109,116,75,70,106,68,99,73,47,80,109,47,65,71,80,
           69,75,83,78,54,119,84,56,61>> >>,
      \* 19 times x -> qQsxh2Nb/vsnD9od6HBiP6Igif0=
      << [i \in 1..19 |-> 120],
         <<113,81,115,120,104,50,78,98,47,118,115,110,68,57,111,100,54,72,
           66,105,80,54,73,103,105,102,48,61>> >>,
      \* 20 times x -> 7jD6MP55bPPoLSNhT1mD/AE8sjc=
      << [i \in 1..20 |-> 120],
         <<55,106,68,54,77,80,53,53,98,80,80,111,76,83,78,104,84,49,109,68,
           47,65,69,56,115,106,99,61>> >>,
      \* 24 times x -> Y07WG9qFFXFhuXL47RVhrhkrtes=
      << [i \in 1..24 |-> 120],
         <<89,48,55,87,71,57,113,70,70,88,70,104,117,88,76,52,55,82,86,104,
           114,104,107,114,116,101,115,61>> >>,
      \* 27 times x -> WWp/NRXr3+N4xy7O/17rN1JrRGc=
      << [i \in 1..27 |-> 120],
         <<87,87,112,47,78,82,88,114,51,43,78,52,120,121,55,79,47,49,55,114,
           78,49,74,114,82,71,99,61>> >>,
      \* 28 times x -> atUL8kQGe4qplhq19Y5TKRw/Uj4=
      << [i \in 1..28 |-> 120],
         <<97,116,85,76,56,107,81,71,101,52,113,112,108,104,113,49,57,89,53,
           84,75,82,119,47,85,106,52,61>> >>,
      \* 83 times x -> dkd2ySOIPSpsGLKtMj2xKG4ec9U=
      << [i \in 1..83 |-> 120],
         <<100,107,100,50,121,83,79,73,80,83,112,115,71,76,75,116,77,106,50,
           120,75,71,52,101,99,57,85,61>> >>,
      \* 84 times x -> 8HQbcddkUtTeWQOigWcTDmzRVvs=
      << [i \in 1..84 |-> 120],
         <<56,72,81,98,99,100,100,107,85,116,84,101,87,81,79,105,103,87,99,
           84,68,109,122,82,86,118,115,61>> >>,
      \* 150 times x -> ThlFLiaoeTmpl1RZzDZL5kzF3qc=
      << [i \in 1..150 |-> 120],
         <<84,104,108,70,76,105,97,111,101,84,109,112,108,49,82,90,122,68,
           90,76,53,107,122,70,51,113,99,61>> >> }

\* The accept key of a key on a machine of the other byte order.
HashKeyBigEndian(key) ==
    base64_encode(
        sha1_result(Sha1HashBytes(sha1_init(FALSE),
                                  key \o NN_WS_HANDSHAKE_MAGIC_GUID, 1,
                                  Len(key) + Len(NN_WS_HANDSHAKE_MAGIC_GUID))),
        NN_WS_HANDSHAKE_ACCEPT_KEY_LEN + 1).out

\* The key of the example of RFC 6455 has been hashed.
SampleKeyHashed == KeyHashed /\ call.in = PeerKeyValue

\* C31: the accept key that nn_ws_handshake_hash_key derives from a key is
\* the base64 form of the SHA-1 digest of the key followed by the 36 bytes
\* of the magic GUID, as a reference implementation computes it; for the
\* key dGhlIHNhbXBsZSBub25jZQ== it is s3pPLMBiTxaQ9kYGzzhZRbK+xOo=, on
\* either byte order.
C31_AcceptKeyIsReference ==
    /\ KeyHashed =>
           \E pair \in ReferenceAccept :
               pair[1] = call.in /\ pair[2] = call.out.hashed
    /\ SampleKeyHashed =>
           /\ call.out.hashed = AcceptOfSampleKey
           /\ HashKeyBigEndian(call.in) = AcceptOfSampleKey

\* The key of the example has been hashed, with the GUID in a second block
\* of the hash.
C31_Witness ==
    /\ SampleKeyHashed
    /\ Len(call.in) + Len(NN_WS_HANDSHAKE_MAGIC_GUID) = 60
    /\ call.out.rc = NN_WS_HANDSHAKE_ACCEPT_KEY_LEN

\* A key slice of three blocks has been hashed.
C31_WitnessLong == KeyHashed /\ Len(call.in) = 150 /\ call.out.rc = 28

(***************************************************************************)
(* C32.  The receive loop and the end of the handshake.                    *)
(***************************************************************************)
\* The instance is handed the bytes of the receive it posted.
Receives ==
    /\ self.state \in {"SERVER_RECV", "CLIENT_RECV"}
    /\ \E uninit_read \in UninitReads : Received(uninit_read)

\* The length of the first receive of an instance of this mode.
FirstRecvLen ==
    IF self.mode = NN_WS_SERVER THEN Len(ServerTemplate)
    ELSE Len(ClientTemplate)

\* The bytes the instance has asked for when the receive posted completes.
Requested == self.recv_pos + self.recv_len

\* The bytes received once that receive has completed.
ReceivedBytes ==
    SubSeq(IF self.mode = NN_WS_SERVER THEN self'.opening_hs
           ELSE self'.response, 1, Requested)

\* The length of the longest proper prefix of CRLFCRLF that the bytes end
\* in.
ProperTail(bytes) ==
    LET n == Len(NN_WS_HANDSHAKE_TERMSEQ)
        ends(i) == /\ i <= Len(bytes)
                   /\ SubSeq(bytes, Len(bytes) - i + 1, Len(bytes))
                          = SubSeq(NN_WS_HANDSHAKE_TERMSEQ, 1, i)
    IN  CHOOSE i \in 0..(n - 1) : ends(i) /\ \A j \in (i + 1)..(n - 1) : ~ends(j)

\* The receive was answered by a round of RECV_MORE: the position has
\* moved on to the end of the bytes received.
RecvMoreRound == self'.recv_pos = Requested

\* The assertions of a round of RECV_MORE.
RoundAssertions ==
    { "handler: recv_pos < sizeof (opening_hs)",
      "handler: recv_pos < sizeof (response)",
      "handler: recv_pos >= TERMSEQ_LEN", "handler: i < TERMSEQ_LEN" }

\* C32, as stated: while no CRLFCRLF of the peer's bytes has ended before
\* the end of the first receive, every round of RECV_MORE leaves recv_len
\* at 4 minus the length of the longest proper prefix of CRLFCRLF that the
\* bytes received end in, and fails none of its assertions; and when the
\* bytes received first hold a CRLFCRLF, the bytes asked for are those up
\* to its end.
C32_NeverReadsPastTerminator ==
    [][(/\ Receives
        /\ TermEnd(ReceivedBytes) \in {0} \cup (FirstRecvLen..Requested))
       => /\ RecvMoreRound =>
                 /\ abort' \notin RoundAssertions
                 /\ self'.recv_len
                        = Len(NN_WS_HANDSHAKE_TERMSEQ) - ProperTail(ReceivedBytes)
          /\ TermEnd(ReceivedBytes) > 0 => TermEnd(ReceivedBytes) = Requested
      ]_vars

(***************************************************************************)
(* C33.  The bytes after the blank line.                                   *)
(***************************************************************************)
\* C33, as stated: whenever the request parser or the response parser
\* leaves its header loop at the blank line, no byte is left in the buffer
\* after it: the assertion strlen (pos) == 0 of neither parser fails,
\* whatever the peer sends.
C33_NothingAfterBlankLine ==
    abort \notin { "parse_client_opening: strlen (pos) == 0",
                   "parse_server_response: strlen (pos) == 0" }

(***************************************************************************)
(* C34.  The length of the first receive of a server.                      *)
(***************************************************************************)
\* A server has posted its first receive and has received nothing yet.
ServerAwaitsFirst ==
    /\ fsm = "active"
    /\ self.mode = NN_WS_SERVER
    /\ self.state = "SERVER_RECV"
    /\ self.retries = 0
    /\ pending = FxRecv("opening_hs", 0, self.recv_len)

\* The request parser, run for this server on the request alone in a
\* buffer of zeros, finds it VALID.
AcceptsAsValid(request) ==
    /\ Len(request) > 0
    /\ nn_ws_handshake_parse_client_opening(
           PutAt(ZeroBuf(OpeningHsSize), 1, request), self.sl,
           self.response_code, self.pipebase).rc = "VALID"

\* C34, as stated: the length of the first receive of a server is the
\* least length of a valid opening handshake: no request of a peer that
\* the request parser accepts as VALID is shorter than it, so that the
\* first receive completes with bytes of the request alone.
C34_FirstRecvIsMinimum ==
    (ServerAwaitsFirst /\ AcceptsAsValid(PeerRequest))
        => /\ self.recv_len = Len(ServerTemplate)
           /\ Len(PeerRequest) >= self.recv_len

(***************************************************************************)
(* C35.  Every handshake ends.                                             *)
(***************************************************************************)
\* The instance has published its one done event and is Done.
DonePublished == self.state = "DONE" /\ Len(DoneEvents) = 1

\* C35, as stated: with a timer that times out when it stays armed and
\* reports that it stopped when it is asked to stop, every started
\* instance publishes its done event and is Done, unless the parent stops
\* it first, whatever the peer does.
C35_EveryHandshakeEnds ==
    (fsm = "active") ~> (DonePublished \/ fsm # "active")

(***************************************************************************)
(* C36.  The protocol value of the 101 reply.                              *)
(***************************************************************************)
\* The server has posted the 101 reply for sending.
Sends101 ==
    /\ RequestAccepted
    /\ self.state = "SERVER_REPLY"
    /\ pending.op = "send"
    /\ ReplyStarts(PeerStatus101)

\* The text of the reply in the response buffer.
ReplyText == CStr(self.response, 1)

\* The value of the Sec-WebSocket-Protocol header of a 101 reply: what is
\* between the header's name, after the accept key, and the CRLFCRLF.
ReplyProtocol ==
    SubSeq(ReplyText,
           Len(Fmt101Head) + NN_WS_HANDSHAKE_ACCEPT_KEY_LEN + Len(Fmt101Mid) + 1,
           Len(ReplyText) - Len(NN_WS_HANDSHAKE_TERMSEQ))

\* C36, as stated: in every 101 reply the server sends, the value of the
\* Sec-WebSocket-Protocol header is the protocol slice of the request,
\* byte for byte, and equals one of the ten tokens of the SP map but for
\* the case of its letters.
C36_ReplyProtocolIsMapToken ==
    Sends101 =>
        /\ pending.bytes = ReplyText
        /\ ReplyProtocol = SliceBytes(self, self.sl.protocol)
        /\ SpsOf(ReplyProtocol) # {}

(***************************************************************************)
(* The two endpoints at work: a client and a server of this                *)
(* implementation, each with its own socket, its own timer and its own     *)
(* parent, joined by a stream that delivers what the one sends to the      *)
(* other, whole and in order.  One endpoint runs at a time; the other      *)
(* waits in call until the scheduler turns to it.  No socket fails, no     *)
(* timer times out and no parent stops its instance.                       *)
(***************************************************************************)
\* The endpoint that runs, as the scheduler leaves it.
Endpoint ==
    [self |-> self, fsm |-> fsm, timer |-> timer, sock_owner |-> sock_owner,
     sock_state |-> sock_state, pending |-> pending, peer |-> peer,
     raised |-> raised, abort |-> abort, hist |-> hist]

\* An endpoint after nn_ws_handshake_start, nothing received yet.
StartedEndpoint(mode, pipebase, resource, host, rand_key) ==
    LET started(step) ==
            [self |-> step.self, fsm |-> "active",
             timer |-> TimerAfter("idle", step.fx),
             sock_owner |-> OwnerAfter("parent", step.fx),
             sock_state |-> "open",
             pending |-> PendingAfter(NoOp, step.fx),
             peer |-> Scripted(<<>>), raised |-> <<>>,
             abort |-> AbortAfter("idle", step.fx),
             hist |-> HistAfter(InitHist, step.fx, NN_FSM_ACTION, "START")]
    IN  started(nn_ws_handshake_start(InitSelf, "parent", pipebase, mode,
                                      resource, host, rand_key))

\* The resources and the hosts a client is started with.
InteropResources == { Resource, <<47,120>> }

InteropHosts == { RemoteHost, <<>> }

\* The pairs of a client and a server: every socket type against every
\* socket type, and every pair of peers with each resource, host and key.
InteropInputs ==
    { [client |-> client, server |-> server, resource |-> Resource,
       host |-> RemoteHost, rand_key |-> RandKeyNonce] :
          client \in AllSps, server \in AllSps }
        \cup { input \in
                   [client : AllSps, server : AllSps,
                    resource : InteropResources, host : InteropHosts,
                    rand_key : RandKeys] :
                   nn_pipebase_ispeer(input.server, input.client) }

\* The endpoint that waits: what the scheduler left of it, and the modes of
\* the endpoints whose request or reply has been handed to the other.
Waiting(endpoint, handed) ==
    [fn |-> "endpoint", at |-> endpoint, handed |-> handed]

Runs(endpoint) ==
    /\ self = endpoint.self
    /\ fsm = endpoint.fsm
    /\ timer = endpoint.timer
    /\ sock_owner = endpoint.sock_owner
    /\ sock_state = endpoint.sock_state
    /\ pending = endpoint.pending
    /\ peer = endpoint.peer
    /\ raised = endpoint.raised
    /\ abort = endpoint.abort
    /\ hist = endpoint.hist

InteropInit ==
    \E input \in InteropInputs :
        /\ Runs(StartedEndpoint(NN_WS_CLIENT, input.client, input.resource,
                                input.host, input.rand_key))
        /\ call = Waiting(StartedEndpoint(NN_WS_SERVER, input.server,
                                          input.resource, input.host,
                                          input.rand_key),
                          {})

\* What an endpoint has given to nn_usock_send: the client its request, in
\* opening_hs, the server its reply, in response.
Output(endpoint) ==
    IF ~endpoint.hist.send_posted THEN <<>>
    ELSE CStr(IF endpoint.self.mode = NN_WS_CLIENT
              THEN endpoint.self.opening_hs ELSE endpoint.self.response, 1)

\* What the endpoint that runs has sent and the other has yet to be given.
InFlight ==
    IF self.mode \in call.handed THEN <<>> ELSE Output(Endpoint)

\* The scheduler turns to the other endpoint, which finds in its socket
\* what the first has sent since.
Switch ==
    /\ call.fn = "endpoint"
    /\ self' = call.at.self
    /\ fsm' = call.at.fsm
    /\ timer' = call.at.timer
    /\ sock_owner' = call.at.sock_owner
    /\ sock_state' = call.at.sock_state
    /\ pending' = call.at.pending
    /\ peer' = [call.at.peer EXCEPT !.bytes = @ \o InFlight]
    /\ raised' = call.at.raised
    /\ abort' = call.at.abort
    /\ hist' = call.at.hist
    /\ call' = Waiting(Endpoint,
                       call.handed \cup (IF hist.send_posted
                                         THEN {self.mode} ELSE {}))

InteropNext ==
    \/ \E uninit_read \in UninitReads : Received(uninit_read)
    \/ Sent
    \/ Stopped
    \/ Switch

InteropSpec == InteropInit /\ [][InteropNext]_vars

(***************************************************************************)
(* C37.  Client and server of this implementation interoperate.            *)
(***************************************************************************)
\* The client and the server of the pair, whichever of them runs.
Client == IF self.mode = NN_WS_CLIENT THEN Endpoint ELSE call.at

Server == IF self.mode = NN_WS_SERVER THEN Endpoint ELSE call.at

\* The done events an endpoint has published.
PublishedBy(endpoint) ==
    SelectSeq(endpoint.raised,
              LAMBDA e : e.type \in {NN_WS_HANDSHAKE_OK, NN_WS_HANDSHAKE_ERROR})

PublishedOk(endpoint) ==
    /\ endpoint.self.state = "DONE"
    /\ Len(PublishedBy(endpoint)) = 1
    /\ PublishedBy(endpoint)[1].type = NN_WS_HANDSHAKE_OK

PublishedError(endpoint) ==
    \E k \in DOMAIN PublishedBy(endpoint) :
        PublishedBy(endpoint)[k].type = NN_WS_HANDSHAKE_ERROR

\* What the stream holds for an endpoint: what its socket has and what the
\* other endpoint has sent since.
Incoming(endpoint, other) ==
    endpoint.peer.bytes
        \o (IF other.self.mode \in call.handed THEN <<>> ELSE Output(other))

\* An endpoint has an event to come: its send completes, its receive has
\* the bytes it asked for, or its timer reports that it stopped.
HasEvent(endpoint, other) ==
    /\ endpoint.abort = "none"
    /\ \/ /\ endpoint.sock_owner = "handshake"
          /\ endpoint.sock_state = "open"
          /\ \/ endpoint.pending.op = "send"
             \/ /\ endpoint.pending.op = "recv"
                /\ Len(Incoming(endpoint, other)) >= endpoint.pending.len
       \/ endpoint.timer = "stopping"

\* Neither endpoint has an event to come.
Quiescent == ~HasEvent(Client, Server) /\ ~HasEvent(Server, Client)

\* The server's peer check accepts the socket type of the client.
Peers == nn_pipebase_ispeer(Server.self.pipebase, Client.self.pipebase)

\* The server has parsed the request and written its reply.
ServerHasReplied == Server.hist.send_posted

C37_WitnessEmptyHost ==
    /\ Peers
    /\ PublishedOk(Client) /\ PublishedOk(Server)
    /\ Client.self.resource = <<47,120>> /\ Client.self.remote_host = <<>>

(***************************************************************************)
(* C38.  The terminal results of the two endpoints agree.                  *)
(***************************************************************************)
\* The response parser of the client has found the reply valid: the client
\* has left CLIENT_RECV for the states on the way to OK.
ClientAccepted ==
    /\ Client.self.state \in {"STOPPING_TIMER_DONE", "DONE"}
    /\ ~PublishedError(Client)

\* The client has received all that the server sent and has nothing left
\* to act on.
ClientAtRest == ~HasEvent(Client, Server)

\* C38, as stated: whenever the server has published OK, the response
\* parser of the client has found the server's reply valid, or finds it
\* valid once the client has received it; the server has not published OK
\* when the client has published ERROR.
C38_ResultsAgree ==
    PublishedOk(Server) =>
        /\ ~PublishedError(Client)
        /\ ClientAtRest => ClientAccepted

(***************************************************************************)
(* C39.  nn_ws_handshake_leave runs once, and Done is left by Stop only.   *)
(***************************************************************************)
\* nn_ws_handshake_leave has run since the start: it alone raises the done
\* event.
LeaveRan == Len(DoneEvents) >= 1

\* The instance has left and its parent has not stopped it yet.
HasLeft == LeaveRan /\ fsm = "active"

\* C39: between a start and the next return to Idle nn_ws_handshake_leave
\* runs at most once; once it has run the state is Done, the socket is the
\* parent's, nothing is posted on it and the timer is idle; the only step
\* taken from there is the Stop of the parent, which posts nothing and
\* leaves the timer idle.
C39_LeaveRunsOnce ==
    [][/\ Len(DoneEvents') <= 1
       /\ HasLeft' =>
              /\ self'.state = "DONE"
              /\ self'.usock = "NULL"
              /\ sock_owner' = "parent"
              /\ pending' = NoOp
              /\ timer' = "idle"
       /\ HasLeft =>
              /\ fsm' # "active"
              /\ self'.state # "DONE"
              /\ pending' = NoOp
              /\ timer' = "idle"
              /\ hist'.sends = hist.sends
              /\ raised' = raised \o RaisedBy(<<FxRaise(NN_WS_HANDSHAKE_STOPPED)>>,
                                              NN_FSM_ACTION, "STOP")
      ]_vars

\* The instance has left with OK and waits for its parent.
C39_Witness == HasLeft /\ self.state = "DONE" /\ ~ErrorPublished

\* The parent has stopped an instance that had left.
C39_WitnessStopped == LeaveRan /\ BackInIdle

(***************************************************************************)
(* C40.  The response code the reply generator runs with.                  *)
(***************************************************************************)
\* The assertions of nn_ws_handshake_server_reply.
ReplyAssertions ==
    { "server_reply: strlen (accept_key)",
      "server_reply: unexpected response code",
      "server_reply: version slice uninitialised",
      "server_reply: sprintf past the end of response" }

\* nn_ws_handshake_server_reply has run since the start: it has posted the
\* reply, the one send of a server, or has stopped at one of its
\* assertions.
ReplyGeneratorRan ==
    /\ self.mode = NN_WS_SERVER
    /\ hist.send_posted \/ abort \in ReplyAssertions

\* The response codes the reply generator has a reply for and that the
\* server sets.
RepliedCodes ==
    { "OK", "TOO_BIG", "WSPROTO", "WSVERSION", "NOTPEER", "UNKNOWNTYPE" }

\* C40: whenever the reply generator has run, the response code is OK,
\* TOO_BIG, WSPROTO, WSVERSION, NOTPEER or UNKNOWNTYPE, neither the NULL
\* that the parser writes before it parses the request line nor NNPROTO,
\* and the generator has not stopped at the assertion of its default
\* branch.
C40_ReplyCodeIsKnown ==
    /\ abort # "server_reply: unexpected response code"
    /\ ReplyGeneratorRan =>
           /\ self.response_code \in RepliedCodes
           /\ ResponseCodeText(self.response_code) = <<>>
                  <=> self.response_code = "OK"

\* The generator has written the reply for a request that failed a check.
C40_Witness ==
    /\ ReplyGeneratorRan
    /\ self.state = "SERVER_REPLY"
    /\ self.response_code = "WSVERSION"
    /\ pending.op = "send"

C40_WitnessTooBig ==
    /\ ReplyGeneratorRan
    /\ self.response_code = "TOO_BIG"
    /\ pending.op = "send"

C40_WitnessCodes ==
    /\ ReplyGeneratorRan
    /\ self.response_code \in {"OK", "WSPROTO", "NOTPEER", "UNKNOWNTYPE"}
    /\ self.state = "DONE"

\* ---- END OF MODEL ----
====
